---- MODULE Spec2Model ----
(***************************************************************************)
(* State-machine model of holodeck/evolution.py: the fixed-step integrator *)
(* `Evolution` (construction, evolve, modify, at, coal, freq_orb_rest) and *)
(* the adaptive integrator `New_Evolution.evolve`.                         *)
(*                                                                         *)
(* Numbers.  The code works on float64 arrays; the model works on          *)
(* integers in fixed units and keeps the IEEE special values that decide   *)
(* the control flow (NaN, +inf, -inf) as tagged records:                   *)
(*   length   : one unit of separation; SCHW units per unit of mass        *)
(*   time     : one unit of lookback time; scale factor a = 1.0 is         *)
(*              ScafaOne and a falls by one per unit of lookback time      *)
(*   eccen    : units of 1e-7, so 1.0 is EccOne and 1e-6 is 10             *)
(* Divisions round away from zero, so that the sign and the zero-ness of   *)
(* every quotient are those of the float quotient.                         *)
(***************************************************************************)
EXTENDS Integers, Sequences, FiniteSets, TLC

\* ---------------------------------------------------------------------------
\* Bounds of the model
\* ---------------------------------------------------------------------------
NumBin == 2          \* number of binaries in the population (pop.size)
NSteps == 3          \* `nsteps` given to Evolution.__init__

Bins == 1..NumBin
Steps == 0..(NSteps - 1)
LastStep == NSteps - 1

\* ---------------------------------------------------------------------------
\* Program constants, in model units
\* ---------------------------------------------------------------------------
SCHW == 2                      \* Schwarzschild radius per unit mass
ISCO_FACTOR == 3               \* rad_isco(m1, m2, factor=3.0)
EccOne == 10000000             \* eccentricity 1.0
_MAX_ECCEN_ONE_MINUS == 10     \* 1.0e-6
ScafaOne == 32                 \* scale factor 1.0 (redshift zero)
_NSTEPS == 3                   \* New_Evolution._NSTEPS (1000), scaled
MAX_BIN_STEPS == 3             \* MAX_BIN_STEPS in New_Evolution.evolve (1e3), scaled
InvCFL == 10                   \* 1 / CFL, CFL = 0.1
_TIME_STEP_MAX == 4            \* New_Evolution._TIME_STEP_MAX, in units of time

\* ---------------------------------------------------------------------------
\* float64 values: finite integers and the IEEE specials
\* ---------------------------------------------------------------------------
Fin(i) == [k |-> "fin", v |-> i]
NaN == [k |-> "nan", v |-> 0]
PInf == [k |-> "inf", v |-> 1]
NInf == [k |-> "inf", v |-> -1]

IsFinite(x) == x.k = "fin"
IsNaN(x) == x.k = "nan"

\* x < 0.0 and x > 0.0 as numpy evaluates them: every comparison with NaN is False
FGt0(x) == x.k # "nan" /\ x.v > 0
\* (alternative: a comparison that is never True)
FLt0_Never(x) == FALSE
FLt0(x) == x.k # "nan" /\ x.v < 0

FNeg(x) == [x EXCEPT !.v = -x.v]

FAdd(x, y) ==
    IF x.k = "nan" \/ y.k = "nan" THEN NaN
    ELSE IF x.k = "inf" /\ y.k = "inf" THEN (IF x.v = y.v THEN x ELSE NaN)
    ELSE IF x.k = "inf" THEN x
    ELSE IF y.k = "inf" THEN y
    ELSE Fin(x.v + y.v)

FSub(x, y) == FAdd(x, FNeg(y))

Sign(i) == IF i > 0 THEN 1 ELSE IF i < 0 THEN -1 ELSE 0

FMul(x, y) ==
    IF x.k = "nan" \/ y.k = "nan" THEN NaN
    ELSE IF x.k = "inf" \/ y.k = "inf"
         THEN (IF x.v = 0 \/ y.v = 0 THEN NaN
               ELSE IF Sign(x.v) = Sign(y.v) THEN PInf ELSE NInf)
    ELSE Fin(x.v * y.v)

\* a <= b and a < b on floats (False when either is NaN)
FLe(x, y) ==
    /\ x.k # "nan" /\ y.k # "nan"
    /\ IF x.k = "inf" THEN (x.v < 0 \/ (y.k = "inf" /\ y.v > 0))
       ELSE IF y.k = "inf" THEN y.v > 0
       ELSE x.v <= y.v

\* integer quotient n / d for d # 0, rounded away from zero
RDiv(n, d) ==
    LET an == IF n < 0 THEN -n ELSE n
        ad == IF d < 0 THEN -d ELSE d
        q == (an + ad - 1) \div ad
    IN IF Sign(n) * Sign(d) < 0 THEN -q ELSE q

\* the float quotient x / -rate, where -rate is -0.0 when rate is 0.0
DivNegRate(n, rate) ==
    IF rate.k = "nan" THEN NaN
    ELSE IF rate.k = "inf" THEN Fin(0)
    ELSE IF rate.v = 0
         THEN (IF n > 0 THEN NInf ELSE IF n < 0 THEN PInf ELSE NaN)
    ELSE Fin(RDiv(n, -rate.v))

\* np.clip(x, lo, hi): NaN stays NaN
Clip(x, lo, hi) ==
    IF x.k = "nan" THEN NaN
    ELSE IF x.k = "inf" THEN (IF x.v > 0 THEN Fin(hi) ELSE Fin(lo))
    ELSE IF x.v < lo THEN Fin(lo)
    ELSE IF x.v > hi THEN Fin(hi)
    ELSE x

RECURSIVE Pow(_, _)
Pow(b, e) == IF e = 0 THEN 1 ELSE b * Pow(b, e - 1)

Min2(a, b) == IF a <= b THEN a ELSE b
Max2(a, b) == IF a >= b THEN a ELSE b

\* ---------------------------------------------------------------------------
\* utils
\* ---------------------------------------------------------------------------
schwarzschild_radius(mass) == SCHW * mass

rad_isco(m1, m2) == ISCO_FACTOR * schwarzschild_radius(m1 + m2)

\* np.logspace(log10(a), log10(b), n)[s]: the s-th of n points spaced evenly
\* in the logarithm from a to b, both end points exact; on the integer grid
\* the interior points are rounded down
LogSpace(a, b, n, s) ==
    IF n = 1 \/ s = 0 THEN a
    ELSE IF s = n - 1 THEN b
    ELSE LET target == Pow(a, n - 1 - s) * Pow(b, s)
         IN CHOOSE x \in Min2(a, b)..Max2(a, b) :
               /\ Pow(x, n - 1) <= target
               /\ Pow(x + 1, n - 1) > target


\* utils.trapz_loglog(dtda, sepa) for one binary: the integral of the power
\* law through (x0, 1/d0) and (x1, 1/d1), where d = -dadt.  The logarithm of
\* a value that is not positive is NaN; for equal x the power-law index is
\* 0/0 (NaN) when the y are equal and infinite otherwise (integral 0).  The
\* magnitude is that of the mean of the two rates' reciprocals.
TrapzLoglog(d0, d1, x0, x1) ==
    IF ~(IsFinite(d0) /\ d0.v > 0 /\ IsFinite(d1) /\ d1.v > 0) THEN NaN
    ELSE IF x0 = x1 THEN (IF d0.v = d1.v THEN NaN ELSE Fin(0))
    ELSE Fin(RDiv((x1 - x0) * (d0.v + d1.v), 2 * d0.v * d1.v))

\* utils.trapz(dedt, time): the linear trapezoid rule on one interval
Trapz(y0, y1, x0, x1) ==
    LET prod == FMul(FSub(x1, x0), FAdd(y0, y1))
    IN IF IsFinite(prod) THEN Fin(RDiv(prod.v, 2)) ELSE prod

\* cosmo.z_to_tlbk(cosmo.a_to_z(scafa)) and cosmo.z_to_a(cosmo.tlbk_to_z(tlook)):
\* lookback time falls from the formation value to 0 at scale factor 1.0
TlookOfScafa(a) == ScafaOne - a
ScafaOfTlook(t) == IF t >= ScafaOne THEN 1 ELSE ScafaOne - t

\* ---------------------------------------------------------------------------
\* Inputs: the initial population, the hardening models, the accretion model
\* ---------------------------------------------------------------------------
EccMid == 5000000          \* e = 0.5
EccHigh == 9999995         \* e = 0.9999995, inside [0, 1)
EccNear == 9500000         \* e = 0.95

\* one binary of a _Population_Discrete: masses, separation, formation
\* scale factor and (used when the population tracks it) eccentricity
PopChoices ==
    { [mass |-> <<1, 1>>, sepa |-> 288, scafa |-> 8,  eccen |-> EccHigh],
      [mass |-> <<2, 1>>, sepa |-> 288, scafa |-> 28, eccen |-> 0],
      [mass |-> <<2, 1>>, sepa |-> 18,  scafa |-> 32, eccen |-> EccMid],
      [mass |-> <<1, 1>>, sepa |-> 8,   scafa |-> 8,  eccen |-> EccMid] }

\* the binaries given to the adaptive integrator: close to the ISCO radius
\* (240), far from it, formed late, formed at redshift zero, inside the ISCO
NewPopChoices ==
    { [mass |-> <<10, 30>>, sepa |-> 300, scafa |-> 8,  eccen |-> EccNear],
      [mass |-> <<10, 30>>, sepa |-> 350, scafa |-> 8,  eccen |-> EccMid],
      [mass |-> <<10, 30>>, sepa |-> 400, scafa |-> 28, eccen |-> EccMid],
      [mass |-> <<10, 30>>, sepa |-> 300, scafa |-> 32, eccen |-> EccMid],
      [mass |-> <<20, 30>>, sepa |-> 200, scafa |-> 8,  eccen |-> 0] }

\* a population of NumBin binaries: the binaries are drawn from `choices`,
\* two of them freely and the others repeating these two in turn
Populations(choices) ==
    { [has_eccen |-> he, bin |-> [b \in Bins |-> pr[((b - 1) % 2) + 1]]] :
        he \in BOOLEAN, pr \in [1..2 -> choices] }

\* lists of hardening models given to the constructor
HardConfigs == { <<"gw">>, <<"gw", "star">>, <<"soft">>, <<"zero">> }
NewHardConfigs == { <<"slow_gw">>, <<"slow_gw", "slow_star">>, <<"slow_soft">> }

\* what can be given in place of a hardening model: an object that is no
\* _Hardening instance and no class, and a class that is no subclass of
\* _Hardening (and has no dadt_dedt)
InvalidModels == { "other_instance", "other_class" }
BadHardConfigs == { <<"other_instance">>, <<"other_class">>, <<"gw", "other_class">> }
NewBadHardConfigs == { <<"other_instance">>, <<"other_class">>, <<"slow_gw", "other_class">> }

\* the type check of the constructors:
\*   good = isinstance(hh, _Hardening) or issubclass(hh, _Hardening)
\* issubclass itself raises TypeError when hh is not a class; Evolution
\* raises TypeError when `good` is False, New_Evolution logs a warning
Rejects(c, hl) ==
    \E i \in DOMAIN hl :
        \/ hl[i] = "other_instance"
        \/ (c = "Evolution" /\ hl[i] = "other_class")

\* the accretion model: absent, attached with evol_mass False, or evol_mass True
AccChoices == { "none", "fixed", "evolve" }

EccRate == 1000000         \* 0.1 per unit of time
SlowEccRate == 100000      \* 0.01 per unit of time

\* _Hardening.dadt_dedt of one model for one binary in the state
\* (separation, total mass, eccentricity): da/dt and de/dt (has_dedt FALSE
\* is the `None` a circular model returns)
dadt_dedt(model, sp, mt, ec, tracked) ==
    IF model = "gw"
    THEN [dadt |-> IF tracked /\ IsNaN(ec) THEN NaN
                   ELSE FMul(mt, Fin(IF tracked /\ FLe(Fin(EccMid), ec) THEN -32 ELSE -16)),
          has_dedt |-> tracked,
          dedt |-> IF IsNaN(ec) THEN NaN ELSE IF FGt0(ec) THEN Fin(-EccRate) ELSE Fin(0)]
    ELSE IF model = "star"
    THEN [dadt |-> Fin(-8), has_dedt |-> tracked, dedt |-> Fin(2 * EccRate)]
    ELSE IF model = "soft"
    THEN [dadt |-> Fin(8), has_dedt |-> FALSE, dedt |-> Fin(0)]
    ELSE IF model = "slow_gw"
    THEN [dadt |-> IF tracked /\ IsNaN(ec) THEN NaN
                   ELSE Fin(IF tracked /\ FLe(Fin(EccMid), ec) THEN -10 ELSE -6),
          has_dedt |-> tracked,
          dedt |-> IF IsNaN(ec) THEN NaN ELSE IF FGt0(ec) THEN Fin(-SlowEccRate) ELSE Fin(0)]
    ELSE IF model = "slow_star"
    THEN [dadt |-> Fin(-2), has_dedt |-> tracked, dedt |-> Fin(3 * SlowEccRate)]
    ELSE IF model = "slow_soft"
    THEN [dadt |-> Fin(6), has_dedt |-> tracked, dedt |-> Fin(SlowEccRate)]
    ELSE [dadt |-> Fin(0), has_dedt |-> FALSE, dedt |-> Fin(0)]

\* acc.pref_acc(acc.mdot_total(evo, step), evo, step): the accretion rates
\* onto the primary and the secondary
pref_acc == << Fin(0), Fin(1) >>

VARIABLES
    cls,            \* the class of the instance: "Evolution" or "New_Evolution"
    pop,            \* self._pop: [has_eccen, bin: Bins -> PopChoices]
    hard,           \* self._hard
    acc,            \* self._acc
    sepa,           \* self.sepa   [Bins -> [Steps -> Int]]
    mass,           \* self.mass   [Bins -> [Steps -> <<float, float>>]]
    mdot,           \* self.mdot
    scafa,          \* self.scafa  [Bins -> [Steps -> Int]]
    tlook,          \* self.tlook  [Bins -> [Steps -> float]]
    eccen,          \* self.eccen  (meaningful when pop.has_eccen)
    dadt,           \* self.dadt
    dedt,           \* self.dedt   (meaningful when pop.has_eccen)
    _evolved,       \* self._evolved
    _coal,          \* self._coal: [set, val]; set FALSE is None
    _freq_orb_rest, \* self._freq_orb_rest: [set, val]; set FALSE is None
    redz,           \* self.redz of New_Evolution
    ev,             \* the local variables of New_Evolution.evolve
    _first_index,   \* self._first_index of New_Evolution
    _last_index,    \* self._last_index of New_Evolution
    pc,             \* position inside evolve(): "idle", or "evolving" (Evolution),
                    \* or "bin" and "loop" (New_Evolution)
    step,           \* the next integration step of the running evolve()
    call,           \* the last API call and how it ended
    gw,             \* the gravwaves.GW_Discrete instance and the local arrays of its
                    \* emit(); << >> when the instance is an Evolution
    su              \* the last sample_universe() call: its arguments, the weights,
                    \* the Poisson mean and what it returned; << >> before a call

\* the record of the last call: the operation and the exception it raised
\* ("none": it returned; "running": evolve() is still inside its loop)
Call(op, raised) == [op |-> op, raised |-> raised]

track == << sepa, mass, mdot, scafa, tlook, eccen, dadt, dedt >>
inputs == << cls, pop, hard, acc >>
adaptive == << redz, ev, _first_index, _last_index >>

MTot(m) == FAdd(m[1], m[2])

\* Evolution._hardening_rate for one binary: the sum over the models
RECURSIVE SumRates(_, _, _, _, _)
SumRates(models, sp, mt, ec, tracked) ==
    IF models = << >> THEN [dadt |-> Fin(0), dedt |-> Fin(0)]
    ELSE LET r == dadt_dedt(Head(models), sp, mt, ec, tracked)
             rest == SumRates(Tail(models), sp, mt, ec, tracked)
         IN [dadt |-> FAdd(r.dadt, rest.dadt),
             dedt |-> IF tracked /\ r.has_dedt THEN FAdd(r.dedt, rest.dedt)
                      ELSE rest.dedt]

_hardening_rate(b, s, ec) ==
    SumRates(hard, sepa[b][s], MTot(mass[b][s]), ec, pop.has_eccen)


\* ---------------------------------------------------------------------------
\* Evolution.__init__
\* ---------------------------------------------------------------------------
ZeroTrack(v) == [b \in Bins |-> [s \in Steps |-> v]]

InitEvolution ==
    /\ cls = "Evolution"
    /\ redz = << >>
    /\ ev = << >>
    /\ _first_index = << >>
    /\ _last_index = << >>
    /\ pop \in Populations(PopChoices)
    /\ hard \in {hl \in HardConfigs \cup BadHardConfigs : ~Rejects("Evolution", hl)}
    /\ acc \in AccChoices
    /\ sepa = ZeroTrack(0)
    /\ mass = ZeroTrack(<< Fin(0), Fin(0) >>)
    /\ mdot = ZeroTrack(<< Fin(0), Fin(0) >>)
    /\ scafa = ZeroTrack(0)
    /\ tlook = ZeroTrack(Fin(0))
    /\ eccen = ZeroTrack(Fin(0))
    /\ dadt = ZeroTrack(Fin(0))
    /\ dedt = ZeroTrack(Fin(0))
    /\ _evolved = FALSE
    /\ _coal = [set |-> FALSE, val |-> [b \in Bins |-> FALSE]]
    /\ _freq_orb_rest = [set |-> FALSE, val |-> ZeroTrack(NaN)]
    /\ pc = "idle"
    /\ step = 0
    /\ call = Call("init", "none")
    /\ gw = << >>
    /\ su = << >>

\* ---------------------------------------------------------------------------
\* Evolution._init_step_zero
\* ---------------------------------------------------------------------------
PopMassF(b) == << Fin(pop.bin[b].mass[1]), Fin(pop.bin[b].mass[2]) >>

PopRadIsco(b) == rad_isco(pop.bin[b].mass[1], pop.bin[b].mass[2])

\* (alternative: every binary's grid ends on the ISCO radius of the first binary)
SepaGrid_Shared(b) == [s \in Steps |-> LogSpace(pop.bin[b].sepa, PopRadIsco(1), NSteps, s)]
SepaGrid(b) == [s \in Steps |-> LogSpace(pop.bin[b].sepa, PopRadIsco(b), NSteps, s)]

_init_step_zero ==
    LET sepa0 == [b \in Bins |-> SepaGrid(b)]
        ecc0 == [b \in Bins |-> Fin(pop.bin[b].eccen)]
        rate0 == [b \in Bins |->
                    SumRates(hard, sepa0[b][0], MTot(PopMassF(b)), ecc0[b], pop.has_eccen)]
    IN /\ sepa' = sepa0
       /\ eccen' = IF pop.has_eccen
                   THEN [b \in Bins |-> [eccen[b] EXCEPT ![0] = ecc0[b]]]
                   ELSE eccen
       /\ scafa' = [b \in Bins |-> [scafa[b] EXCEPT ![0] = pop.bin[b].scafa]]
       /\ tlook' = [b \in Bins |->
                      [tlook[b] EXCEPT ![0] = Fin(TlookOfScafa(pop.bin[b].scafa))]]
       /\ mass' = [b \in Bins |-> [s \in Steps |-> PopMassF(b)]]
       /\ dadt' = [b \in Bins |-> [dadt[b] EXCEPT ![0] = rate0[b].dadt]]
       /\ dedt' = IF pop.has_eccen
                  THEN [b \in Bins |-> [dedt[b] EXCEPT ![0] = rate0[b].dedt]]
                  ELSE dedt
       /\ UNCHANGED mdot

\* evolve(): step zero, then the loop over range(1, nsteps) starts
EvolveStart ==
    /\ cls = "Evolution"
    /\ pc = "idle"
    /\ UNCHANGED adaptive
    /\ _init_step_zero
    /\ pc' = "evolving"
    /\ step' = 1
    /\ call' = Call("evolve", "running")
    /\ UNCHANGED << inputs, gw, su, _evolved, _coal, _freq_orb_rest >>

\* ---------------------------------------------------------------------------
\* Evolution._take_next_step
\* ---------------------------------------------------------------------------
EccMax == EccOne - _MAX_ECCEN_ONE_MINUS

\* (alternative: the cosmology's value is stored for every finite lookback time)
ScafaAt_Unclamped(tl) == IF IsFinite(tl) THEN ScafaOne - tl.v ELSE ScafaOne
\* scale factor stored for a lookback time: the cosmology's value while
\* tlook > 0.0, and 1.0 otherwise
ScafaAt(tl) == IF FGt0(tl) /\ IsFinite(tl) THEN ScafaOfTlook(tl.v) ELSE ScafaOne

\* the provisional duration of the step ending at `right`: da / -dadt_l
Dt1(b, right) ==
    LET left == right - 1
        rate_l == _hardening_rate(b, left, eccen[b][left])
    IN DivNegRate(sepa[b][left] - sepa[b][right], rate_l.dadt)

\* the provisional right-edge eccentricity and lookback time
Ecc1(b, right) ==
    LET left == right - 1
        rate_l == _hardening_rate(b, left, eccen[b][left])
    IN Clip(FAdd(eccen[b][left], FMul(rate_l.dedt, Dt1(b, right))), 0, EccMax)

Tlook1(b, right) == FSub(tlook[b][right - 1], Dt1(b, right))

\* the right-edge hardening rate, evaluated on the provisional right edge
RateR(b, right) ==
    _hardening_rate(b, right, IF pop.has_eccen THEN Ecc1(b, right) ELSE eccen[b][right])

\* the duration from the trapezoid rule on dt/da = 1.0 / -dadt at (left, right)
\* against sepa at (right, left)
Dt2(b, right) ==
    TrapzLoglog(FNeg(dadt[b][right - 1]), FNeg(RateR(b, right).dadt),
                sepa[b][right], sepa[b][right - 1])

\* (alternative: the duration is added)
Tlook2_Plus(b, right) == FAdd(tlook[b][right - 1], Dt2(b, right))
\* the lookback time of the right edge: tlook[:, left] - dt
Tlook2(b, right) == FSub(tlook[b][right - 1], Dt2(b, right))

Ecc2(b, right) ==
    LET left == right - 1
        decc == Trapz(dedt[b][left], RateR(b, right).dedt, Tlook2(b, right), tlook[b][left])
    IN Clip(FAdd(eccen[b][left], decc), 0, EccMax)

\* (alternative: the accreted mass is added whatever evol_mass is)
MassNext_Accrete(b, right) ==
    << FAdd(mass[b][right - 1][1], FMul(Dt2(b, right), pref_acc[1])),
       FAdd(mass[b][right - 1][2], FMul(Dt2(b, right), pref_acc[2])) >>
\* the masses stored at `right` when an accretion model is attached
MassNext(b, right) ==
    LET left == right - 1
        dt == Dt2(b, right)
    IN IF acc = "evolve"
       THEN << FAdd(mass[b][left][1], FMul(dt, pref_acc[1])),
               FAdd(mass[b][left][2], FMul(dt, pref_acc[2])) >>
       ELSE mass[b][left]

Set1(arr, s, val) == [b \in Bins |-> [arr[b] EXCEPT ![s] = val[b]]]

\* (alternative: only the first binary is looked at)
NegativeDt1_FirstOnly(right) == FLt0(Dt1(1, right))
\* np.any(dt < 0.0) on the provisional and on the trapezoid duration
NegativeDt1(right) == \E b \in Bins : FLt0(Dt1(b, right))
NegativeDt2(right) == \E b \in Bins : FLt0(Dt2(b, right))

\* the arrays written before the trapezoid rule is applied
StoreProvisional(right) ==
    LET e1 == [b \in Bins |-> Ecc1(b, right)]
        t1 == [b \in Bins |-> Tlook1(b, right)]
        a1 == [b \in Bins |-> ScafaAt(Tlook1(b, right))]
        dr == [b \in Bins |-> RateR(b, right).dadt]
        er == [b \in Bins |-> RateR(b, right).dedt]
    IN /\ eccen' = IF pop.has_eccen THEN Set1(eccen, right, e1) ELSE eccen
       /\ tlook' = Set1(tlook, right, t1)
       /\ scafa' = Set1(scafa, right, a1)
       /\ dadt' = Set1(dadt, right, dr)
       /\ dedt' = IF pop.has_eccen THEN Set1(dedt, right, er) ELSE dedt
       /\ UNCHANGED << sepa, mass, mdot >>

StoreStep(right) ==
    LET e2 == [b \in Bins |-> Ecc2(b, right)]
        t2 == [b \in Bins |-> Tlook2(b, right)]
        a2 == [b \in Bins |-> ScafaAt(Tlook2(b, right))]
        dr == [b \in Bins |-> RateR(b, right).dadt]
        er == [b \in Bins |-> RateR(b, right).dedt]
        mn == [b \in Bins |-> MassNext(b, right)]
        md == [b \in Bins |-> pref_acc]
    IN /\ eccen' = IF pop.has_eccen THEN Set1(eccen, right, e2) ELSE eccen
       /\ tlook' = Set1(tlook, right, t2)
       /\ scafa' = Set1(scafa, right, a2)
       /\ dadt' = Set1(dadt, right, dr)
       /\ dedt' = IF pop.has_eccen THEN Set1(dedt, right, er) ELSE dedt
       /\ mass' = IF acc # "none" THEN Set1(mass, right, mn) ELSE mass
       /\ mdot' = IF acc # "none" THEN Set1(mdot, right - 1, md) ELSE mdot
       /\ UNCHANGED sepa

\* one pass of the loop of evolve(): the step is stored, or ValueError
\* leaves evolve() with what had been written so far
TakeNextStep ==
    /\ pc = "evolving"
    /\ UNCHANGED adaptive
    /\ step < NSteps
    /\ IF NegativeDt1(step)
       THEN /\ UNCHANGED track
            /\ pc' = "idle"
            /\ step' = 0
            /\ call' = Call("evolve", "ValueError")
       ELSE IF NegativeDt2(step)
       THEN /\ StoreProvisional(step)
            /\ pc' = "idle"
            /\ step' = 0
            /\ call' = Call("evolve", "ValueError")
       ELSE /\ StoreStep(step)
            /\ step' = step + 1
            /\ UNCHANGED << pc, call >>
    /\ UNCHANGED << inputs, gw, su, _evolved, _coal, _freq_orb_rest >>

\* ---------------------------------------------------------------------------
\* Evolution._check and Evolution._finalize
\* ---------------------------------------------------------------------------
\* _check raises ValueError on a non-finite sepa, scafa, mass, tlook or dadt,
\* and on a non-finite eccen or dedt when eccentricity is tracked
CheckFails(mass_, tlook_, dadt_, eccen_, dedt_) ==
    \E b \in Bins, s \in Steps :
        \/ ~IsFinite(mass_[b][s][1]) \/ ~IsFinite(mass_[b][s][2])
        \/ ~IsFinite(tlook_[b][s])
        \/ ~IsFinite(dadt_[b][s])
        \/ (pop.has_eccen /\ (~IsFinite(eccen_[b][s]) \/ ~IsFinite(dedt_[b][s])))

\* _finalize: the flag is set first, then modify() (self._mods is None: no
\* modifier runs) and _check()
Finalize ==
    /\ pc = "evolving"
    /\ UNCHANGED adaptive
    /\ step = NSteps
    /\ _evolved' = TRUE
    /\ pc' = "idle"
    /\ step' = 0
    /\ call' = Call("evolve", IF CheckFails(mass, tlook, dadt, eccen, dedt)
                               THEN "ValueError" ELSE "none")
    /\ UNCHANGED << inputs, gw, su, track, _coal, _freq_orb_rest >>

\* ---------------------------------------------------------------------------
\* Logarithms.  log10 is applied by at() to the stored frequencies and
\* separations and to the targets.  Log2Fix(v) is the base-2 logarithm of
\* the integer v >= 1 in fixed point with 9 fractional bits (binary digit
\* extraction by repeated squaring of a 14-bit mantissa); log10 differs from
\* it by a constant positive factor, which cancels in every comparison and
\* in the interpolation fraction.
\* ---------------------------------------------------------------------------
RECURSIVE ILog2(_)
ILog2(v) == IF v < 2 THEN 0 ELSE 1 + ILog2(v \div 2)

RECURSIVE FracBits(_, _)
FracBits(m, n) ==
    IF n = 0 THEN 0
    ELSE LET sq == (m * m) \div 16384
         IN IF sq >= 32768
            THEN Pow(2, n - 1) + FracBits(sq \div 2, n - 1)
            ELSE FracBits(sq, n - 1)

Log2FixCalc(v) ==
    LET k == ILog2(v)
    IN 512 * k + FracBits((v * 16384) \div Pow(2, k), 9)

\* tabulated over the range on which it is strictly increasing
LogTable == [v \in 1..745 |-> Log2FixCalc(v)]

Log2Fix(v) == LogTable[v]

\* utils.kepler_freq_from_sepa(mtot, sepa) = sqrt(G mtot) / (2 pi sepa^1.5),
\* kept as twice its logarithm: log(mtot) - 3 log(sepa) (+ a constant)
kepler_freq_from_sepa(mt, sp) ==
    IF IsFinite(mt) /\ mt.v >= 1 /\ sp >= 1
    THEN Fin(Log2Fix(mt.v) - 3 * Log2Fix(sp))
    ELSE NaN

\* the value the property freq_orb_rest computes from the stored track
FreqOrbRestNow == [b \in Bins |-> [s \in Steps |->
                      kepler_freq_from_sepa(MTot(mass[b][s]), sepa[b][s])]]

\* freq_orb_obs = freq_orb_rest / (1 + redz), redz = 1/scafa - 1, from the
\* cached rest-frame frequency `frest`; as twice the logarithm
freq_orb_obs(frest) ==
    [b \in Bins |-> [s \in Steps |->
        IF scafa[b][s] >= 1
        THEN FAdd(frest[b][s], Fin(2 * Log2Fix(scafa[b][s]) - 2 * Log2Fix(ScafaOne)))
        ELSE NaN]]

\* Evolution.coal as computed from the stored track
CoalNow == [b \in Bins |-> scafa[b][LastStep] < ScafaOne]

\* ---------------------------------------------------------------------------
\* Evolution.at and its three helpers
\* ---------------------------------------------------------------------------
Rev(s) == LastStep - s

\* _at__inputs: log10 of the x-values of the tracks, in increasing order of
\* the index (the separations are reversed)
XOld(xpar, frest) ==
    IF xpar = "fobs" THEN freq_orb_obs(frest)
    ELSE [b \in Bins |-> [j \in Steps |->
             IF sepa[b][Rev(j)] >= 1 THEN Fin(2 * Log2Fix(sepa[b][Rev(j)])) ELSE NaN]]

\* utils.minmax: np.min and np.max return NaN when any entry is NaN
AllFinite(xold) == \A b \in Bins, j \in Steps : IsFinite(xold[b][j])
XMin(xold) == CHOOSE m \in {xold[b][j].v : b \in Bins, j \in Steps} :
                 \A b \in Bins, j \in Steps : m <= xold[b][j].v
XMax(xold) == CHOOSE m \in {xold[b][j].v : b \in Bins, j \in Steps} :
                 \A b \in Bins, j \in Steps : m >= xold[b][j].v
SeqMin(q) == CHOOSE m \in {q[i] : i \in DOMAIN q} : \A i \in DOMAIN q : m <= q[i]
SeqMax(q) == CHOOSE m \in {q[i] : i \in DOMAIN q} : \A i \in DOMAIN q : m >= q[i]

\* (alternative: any target outside the extrema is rejected)
OutOfBounds_Any(xnew, xold) ==
    /\ AllFinite(xold)
    /\ (SeqMin(xnew) < XMin(xold) \/ SeqMax(xnew) > XMax(xold))
\* the bounds check of _at__inputs:
\*   (textr[1] < xextr[0]) | (textr[0] > xextr[1])
OutOfBounds(xnew, xold) ==
    /\ AllFinite(xold)
    /\ (SeqMax(xnew) < XMin(xold) \/ SeqMin(xnew) > XMax(xold))

\* (alternative: a target beyond the last value takes the last index)
Aft_Clip(xrow, x) ==
    IF \E j \in Steps : FLe(Fin(x), xrow[j])
    THEN CHOOSE j \in Steps :
            /\ FLe(Fin(x), xrow[j])
            /\ \A i \in 0..(j - 1) : ~FLe(Fin(x), xrow[i])
    ELSE LastStep
\* _at__index_frac for binary b and target x: np.argmax of (x <= xold[b, :])
\* is the first index at which it is True, and 0 when it is True nowhere
Aft(xrow, x) ==
    IF \E j \in Steps : FLe(Fin(x), xrow[j])
    THEN CHOOSE j \in Steps :
            /\ FLe(Fin(x), xrow[j])
            /\ \A i \in 0..(j - 1) : ~FLe(Fin(x), xrow[i])
    ELSE 0

Bef(aft) == IF aft > 0 THEN aft - 1 ELSE aft

\* interp_frac = numer / denom where denom != 0.0, and 0.0 elsewhere; kept
\* as the pair numer, denom (nan: one of the two x-values is NaN)
InterpFrac(xrow, x, aft, bef) ==
    LET xa == xrow[aft]
        xb == xrow[bef]
    IN IF ~IsFinite(xa) \/ ~IsFinite(xb) THEN [nan |-> TRUE, num |-> 0, den |-> 1]
       ELSE IF xa.v - xb.v = 0 THEN [nan |-> FALSE, num |-> 0, den |-> 1]
       ELSE [nan |-> FALSE, num |-> x - xb.v, den |-> xa.v - xb.v]

\* frac * a for the fraction num / den, dividing first to stay in range
MulFrac(a, num, den) ==
    LET aa == IF a < 0 THEN -a ELSE a
        an == IF num < 0 THEN -num ELSE num
        ad == IF den < 0 THEN -den ELSE den
        q == (aa \div ad) * an + RDiv((aa % ad) * an, ad)
    IN IF Sign(a) * Sign(num) * Sign(den) < 0 THEN -q ELSE q

\* _at__interpolate_array with lin_interp_flag True:
\*   yold[bef] + (yold[aft] - yold[bef]) * frac
LinInterp(yb, ya, fr) ==
    IF fr.nan THEN NaN
    ELSE LET d == FSub(ya, yb)
         IN IF IsFinite(d) THEN FAdd(yb, Fin(MulFrac(d.v, fr.num, fr.den)))
            ELSE FAdd(yb, FMul(d, Fin(fr.num)))

\* 10.0 ** y on the fixed-point logarithm: the largest v between lo and hi
\* whose logarithm does not exceed y (lo when there is none)
RECURSIVE Exp2Fix(_, _, _)
Exp2Fix(y, lo, hi) ==
    IF lo >= hi THEN lo
    ELSE LET mid == (lo + hi + 1) \div 2
         IN IF Log2Fix(mid) <= y THEN Exp2Fix(y, mid, hi)
            ELSE Exp2Fix(y, lo, mid - 1)

\* _at__interpolate_array with lin_interp_flag False: the same line on
\* log10(yold), and 10.0 ** of the result; the logarithm of a value that is
\* not positive is not finite
LogInterp(yb, ya, fr) ==
    IF fr.nan \/ ~IsFinite(yb) \/ ~IsFinite(ya) THEN NaN
    ELSE IF yb.v < 1 \/ ya.v < 1 \/ yb.v > 744 \/ ya.v > 744 THEN NaN
    ELSE LET lb == Log2Fix(yb.v)
             la == Log2Fix(ya.v)
             y == lb + MulFrac(la - lb, fr.num, fr.den)
         IN Fin(Exp2Fix(y, Min2(yb.v, ya.v), Max2(yb.v, ya.v)))

\* _LIN_INTERP_PARS: every parameter but mass and sepa
Interp(par, yb, ya, fr) ==
    IF par \in {"mass1", "mass2", "sepa"} THEN LogInterp(yb, ya, fr)
    ELSE LinInterp(yb, ya, fr)

\* the stored value of parameter `par` of binary b at index j of the
\* (possibly reversed) track; mass has two components
YOld(par, b, j, rev) ==
    LET s == IF rev THEN Rev(j) ELSE j
    IN CASE par = "mass1" -> mass[b][s][1]
         [] par = "mass2" -> mass[b][s][2]
         [] par = "sepa" -> Fin(sepa[b][s])
         [] par = "eccen" -> eccen[b][s]
         [] par = "scafa" -> Fin(scafa[b][s])
         [] par = "tlook" -> tlook[b][s]
         [] par = "dadt" -> dadt[b][s]
         [] OTHER -> dedt[b][s]

\* _EVO_PARS, with the parameters that are None left out
EvoPars == IF pop.has_eccen
           THEN {"mass1", "mass2", "sepa", "eccen", "scafa", "tlook", "dadt", "dedt"}
           ELSE {"mass1", "mass2", "sepa", "scafa", "tlook", "dadt"}

\* _at__index_frac for one binary and one target: the two indices and the
\* interpolation fraction
AtIndexFrac(xrow, x) ==
    LET aft == Aft(xrow, x)
        bef == Bef(aft)
    IN [aft |-> aft, bef |-> bef, frac |-> InterpFrac(xrow, x, aft, bef)]

\* what at(xpar, targets, coal=coal) returns, given the cached rest-frame
\* frequency and the cached coal array it uses
AtResult(xpar, xnew, coalflag, frest, coalarr) ==
    LET xold == XOld(xpar, frest)
        rev == (xpar = "sepa")
        T == DOMAIN xnew
        cut(b, t) == AtIndexFrac(xold[b], xnew[t])
        ok(b, t, c) == c.aft > 0 /\ (coalflag => coalarr[b])
        ynew(par, b, t, c) ==
            IF ok(b, t, c)
            THEN Interp(par, YOld(par, b, c.bef, rev), YOld(par, b, c.aft, rev), c.frac)
            ELSE NaN
    IN [xpar |-> xpar, targets |-> xnew, coal |-> coalflag,
        aft |-> [b \in Bins |-> [t \in T |-> cut(b, t).aft]],
        bef |-> [b \in Bins |-> [t \in T |-> cut(b, t).bef]],
        frac |-> [b \in Bins |-> [t \in T |-> cut(b, t).frac]],
        valid |-> [b \in Bins |-> [t \in T |-> ok(b, t, cut(b, t))]],
        data |-> [par \in EvoPars |-> [b \in Bins |-> [t \in T |->
                    ynew(par, b, t, cut(b, t))]]]]

\* ---------------------------------------------------------------------------
\* The calls a user makes between two evolve() calls
\* ---------------------------------------------------------------------------
\* (alternative: the check never raises)
NotEvolved_Never == FALSE
\* Evolution._check_evolved raises RuntimeError unless self._evolved is True
NotEvolved == _evolved # TRUE

\* the rest-frame frequency the property freq_orb_rest hands out: the cache
\* when it is set, and the freshly computed (and then cached) value otherwise
FreqOrbRestUsed == IF _freq_orb_rest.set THEN _freq_orb_rest.val ELSE FreqOrbRestNow

\* the array the property coal hands out
CoalUsed == IF _coal.set THEN _coal.val ELSE CoalNow

\* targets offered to at(): (log10 of) stored x-values of the tracks, points
\* between two stored values, and a point on either side of all tracks
FiniteX(xold) == {xold[b][j].v : b \in {c \in Bins : \A i \in Steps : IsFinite(xold[c][i])},
                                 j \in Steps}
Below(xold) ==
    LET fx == FiniteX(xold)
    IN IF fx = {} THEN -64 ELSE (CHOOSE m \in fx : \A y \in fx : m <= y) - 64
Above(xold) ==
    LET fx == FiniteX(xold)
    IN IF fx = {} THEN 64 ELSE (CHOOSE m \in fx : \A y \in fx : m >= y) + 64
Between(xold) == {(xold[b][j].v + xold[b][j + 1].v) \div 2 :
                    b \in {c \in Bins : \A i \in Steps : IsFinite(xold[c][i])},
                    j \in 0..(LastStep - 1)}
TargetCands(xold) == FiniteX(xold) \cup Between(xold) \cup {Below(xold), Above(xold)}
TargetLists(xold) ==
    LET lo == Below(xold)
    IN {<< x >> : x \in TargetCands(xold)}
       \cup {<< lo, x >> : x \in Between(xold) \cup {Above(xold)}}

\* at() on an instance that has not been evolved: _at__inputs raises first
AtNotEvolved ==
    /\ cls = "Evolution"
    /\ pc = "idle"
    /\ UNCHANGED adaptive
    /\ NotEvolved
    /\ call' = Call("at", "RuntimeError")
    /\ UNCHANGED << inputs, gw, su, track, _evolved, _coal, _freq_orb_rest, pc, step >>

\* at() with an `xpar` that is neither 'sepa' nor 'fobs'
AtBadXpar ==
    /\ cls = "Evolution"
    /\ pc = "idle"
    /\ UNCHANGED adaptive
    /\ ~NotEvolved
    /\ call' = Call("at", "ValueError")
    /\ UNCHANGED << inputs, gw, su, track, _evolved, _coal, _freq_orb_rest, pc, step >>

\* at(xpar, targets, coal=coalflag) on an evolved instance: ValueError from
\* the bounds check, or the return value AtResult(xpar, targets, coalflag,
\* FreqOrbRestUsed, CoalUsed); the two properties it reads are cached
At ==
    /\ cls = "Evolution"
    /\ pc = "idle"
    /\ UNCHANGED adaptive
    /\ ~NotEvolved
    /\ \E xpar \in {"fobs", "sepa"}, coalflag \in BOOLEAN :
         LET frest == FreqOrbRestUsed
             xold == XOld(xpar, frest)
         IN \E xnew \in TargetLists(xold) :
              /\ _freq_orb_rest' = IF xpar = "fobs"
                                   THEN [set |-> TRUE, val |-> frest]
                                   ELSE _freq_orb_rest
              /\ IF OutOfBounds(xnew, xold)
                 THEN /\ call' = Call("at", "ValueError")
                      /\ UNCHANGED _coal
                 ELSE /\ call' = Call("at", "none")
                      /\ _coal' = IF coalflag THEN [set |-> TRUE, val |-> CoalUsed]
                                  ELSE _coal
    /\ UNCHANGED << inputs, gw, su, track, _evolved, pc, step >>

\* modify(): _check_evolved, then the modifiers (self._mods is None: none),
\* then _update_derived, which does nothing
Modify ==
    /\ cls = "Evolution"
    /\ pc = "idle"
    /\ UNCHANGED adaptive
    /\ call' = Call("modify", IF NotEvolved THEN "RuntimeError" ELSE "none")
    /\ UNCHANGED << inputs, gw, su, track, _evolved, _coal, _freq_orb_rest, pc, step >>

\* the property coal: computed from scafa[:, -1] on the first read, and the
\* stored array on every later read
ReadCoal ==
    /\ cls = "Evolution"
    /\ pc = "idle"
    /\ UNCHANGED adaptive
    /\ _coal' = [set |-> TRUE, val |-> CoalUsed]
    /\ call' = Call("coal", "none")
    /\ UNCHANGED << inputs, gw, su, track, _evolved, _freq_orb_rest, pc, step >>

\* the property freq_orb_rest: _check_evolved only when nothing is cached
ReadFreqOrbRest ==
    /\ cls = "Evolution"
    /\ pc = "idle"
    /\ UNCHANGED adaptive
    /\ IF ~_freq_orb_rest.set /\ NotEvolved
       THEN /\ call' = Call("freq_orb_rest", "RuntimeError")
            /\ UNCHANGED _freq_orb_rest
       ELSE /\ call' = Call("freq_orb_rest", "none")
            /\ _freq_orb_rest' = [set |-> TRUE, val |-> FreqOrbRestUsed]
    /\ UNCHANGED << inputs, gw, su, track, _evolved, _coal, pc, step >>

\* ---------------------------------------------------------------------------
\* New_Evolution: the adaptive integrator.  The arrays are one-dimensional
\* over a shared arena, kept as functions on 0..(length - 1).
\* ---------------------------------------------------------------------------
ALen(a) == Cardinality(DOMAIN a)
Zeros(n, v) == [i \in 0..(n - 1) |-> v]
\* np.concatenate([a, np.zeros(n)])
Grow(a, n, v) == [i \in 0..(ALen(a) + n - 1) |-> IF i < ALen(a) THEN a[i] ELSE v]
\* a[:end]
Trim(a, end) == [i \in 0..(Min2(end, ALen(a)) - 1) |-> a[i]]

ZeroPair == << Fin(0), Fin(0) >>
ZeroList == [i \in DOMAIN hard |-> Fin(0)]

FLt(x, y) == FLe(x, y) /\ ~FLe(y, x)
FAbs(x) == IF x.k = "nan" THEN NaN ELSE [x EXCEPT !.v = IF x.v < 0 THEN -x.v ELSE x.v]
FHalf(x) == IF IsFinite(x) THEN Fin(RDiv(x.v, 2)) ELSE x

\* the float quotient n / d
FDiv(n, d) ==
    IF IsNaN(n) \/ IsNaN(d) THEN NaN
    ELSE IF n.k = "inf" THEN (IF d.k = "inf" THEN NaN
                              ELSE IF Sign(n.v) * (IF d.v < 0 THEN -1 ELSE 1) > 0
                                   THEN PInf ELSE NInf)
    ELSE IF d.k = "inf" THEN Fin(0)
    ELSE IF d.v = 0 THEN (IF n.v > 0 THEN PInf ELSE IF n.v < 0 THEN NInf ELSE NaN)
    ELSE Fin(RDiv(n.v, d.v))

\* (alternative: the first entry of the list)
FMinSeq_First(q) == q[1]
\* np.min of a list: NaN when an entry is NaN
FMinSeq(q) ==
    IF \E i \in DOMAIN q : IsNaN(q[i]) THEN NaN
    ELSE CHOOSE m \in {q[i] : i \in DOMAIN q} : \A i \in DOMAIN q : FLe(m, q[i])

RECURSIVE FSum(_)
FSum(q) == IF q = << >> THEN Fin(0) ELSE FAdd(Head(q), FSum(Tail(q)))

\* CFL * x / r for a rate r that is not negative, rounded down
CflQuot(x, r) ==
    IF IsNaN(x) \/ IsNaN(r) THEN NaN
    ELSE IF r.k = "inf" THEN (IF x.k = "inf" THEN NaN ELSE Fin(0))
    ELSE IF x.k = "inf" THEN x
    ELSE IF r.v = 0 THEN (IF x.v > 0 THEN PInf ELSE IF x.v < 0 THEN NInf ELSE NaN)
    ELSE IF x.v >= 0 THEN Fin(x.v \div (InvCFL * r.v))
    ELSE Fin(-((-x.v) \div (InvCFL * r.v)))

\* cosmo.tlbk_to_z(tlook), in thousandths: z = 1/a - 1 at the scale factor
\* of that lookback time
RedzOfTlook(t) ==
    IF IsNaN(t) THEN NaN
    ELSE IF t.k = "inf" THEN t
    ELSE IF t.v <= 0 THEN Fin(0)
    ELSE IF t.v >= ScafaOne THEN PInf
    ELSE Fin(RDiv(1000 * t.v, ScafaOne - t.v))

RedzFloor == 1                 \* 1e-3, in thousandths

\* New_Evolution._get_timestep_from_rates on the state (sp, ec, ms)
_get_timestep_from_rates(sp, ec, ms, dadt_, dedt_, mdot_) ==
    << CflQuot(sp, FAbs(dadt_)),
       IF pop.has_eccen THEN CflQuot(ec, FAbs(dedt_)) ELSE PInf,
       IF acc # "none"
       THEN FMinSeq(<< CflQuot(ms[1], mdot_[1]), CflQuot(ms[2], mdot_[2]) >>)
       ELSE PInf >>

\* New_Evolution._hardening_rate on the state (sp, ms, ec): one rate per
\* model; a de/dt of None stored into a float array is NaN
NewHardeningRate(sp, ms, ec) ==
    LET r(i) == dadt_dedt(hard[i], sp, MTot(ms), ec, pop.has_eccen)
    IN [dadt |-> [i \in DOMAIN hard |-> r(i).dadt],
        dedt |-> [i \in DOMAIN hard |-> IF r(i).has_dedt THEN r(i).dedt ELSE NaN],
        mdot |-> IF acc # "none" THEN pref_acc ELSE ZeroPair]

PairAdd(ms, rate, dt) == << FAdd(ms[1], FMul(rate[1], dt)), FAdd(ms[2], FMul(rate[2], dt)) >>

RadIscoF(ms) == IF IsFinite(ms[1]) /\ IsFinite(ms[2]) THEN rad_isco(ms[1].v, ms[2].v) ELSE 0

InitNewEvolution ==
    /\ cls = "New_Evolution"
    /\ pop \in Populations(NewPopChoices)
    /\ hard \in {hl \in NewHardConfigs \cup NewBadHardConfigs : ~Rejects("New_Evolution", hl)}
    /\ acc \in {"none", "evolve"}
    /\ sepa = << >> /\ mass = << >> /\ mdot = << >> /\ tlook = << >>
    /\ eccen = << >> /\ dadt = << >> /\ dedt = << >> /\ redz = << >>
    /\ scafa = << >>
    /\ ev = << >>
    /\ _first_index = << >>
    /\ _last_index = << >>
    /\ _evolved = FALSE
    /\ _coal = [set |-> FALSE, val |-> [b \in Bins |-> FALSE]]
    /\ _freq_orb_rest = [set |-> FALSE, val |-> << >>]
    /\ pc = "idle"
    /\ step = 0
    /\ call = Call("init", "none")
    /\ gw = << >>
    /\ su = << >>

\* a constructor call that raised TypeError in the type check: there is no
\* instance, and nothing can be called
InitRejected ==
    /\ cls \in {"Evolution", "New_Evolution"}
    /\ pop \in Populations(IF cls = "Evolution" THEN PopChoices ELSE NewPopChoices)
    /\ hard \in {hl \in (IF cls = "Evolution" THEN HardConfigs \cup BadHardConfigs
                                               ELSE NewHardConfigs \cup NewBadHardConfigs) :
                    Rejects(cls, hl)}
    /\ acc = "none"
    /\ sepa = << >> /\ mass = << >> /\ mdot = << >> /\ tlook = << >>
    /\ eccen = << >> /\ dadt = << >> /\ dedt = << >> /\ redz = << >>
    /\ scafa = << >>
    /\ ev = << >>
    /\ _first_index = << >>
    /\ _last_index = << >>
    /\ _evolved = FALSE
    /\ _coal = [set |-> FALSE, val |-> [b \in Bins |-> FALSE]]
    /\ _freq_orb_rest = [set |-> FALSE, val |-> << >>]
    /\ pc = "rejected"
    /\ step = 0
    /\ call = Call("init", "TypeError")
    /\ gw = << >>
    /\ su = << >>

\* evolve() up to the loop over the binaries: the arena is allocated
NewEvolveStart ==
    /\ cls = "New_Evolution"
    /\ pc = "idle"
    /\ LET nsteps == _NSTEPS * NumBin
       IN /\ sepa' = Zeros(nsteps, Fin(0))
          /\ dadt' = Zeros(nsteps, ZeroList)
          /\ mass' = Zeros(nsteps, ZeroPair)
          /\ redz' = Zeros(nsteps, Fin(0))
          /\ tlook' = Zeros(nsteps, Fin(0))
          /\ eccen' = IF pop.has_eccen THEN Zeros(nsteps, Fin(0)) ELSE << >>
          /\ dedt' = IF pop.has_eccen THEN Zeros(nsteps, ZeroList) ELSE << >>
          /\ mdot' = IF acc # "none" THEN Zeros(nsteps, ZeroPair) ELSE << >>
          /\ ev' = [bin |-> 1, idx |-> 0, left |-> 0, right |-> 0, my_steps |-> 0,
                    risco |-> 0, arr_size |-> nsteps,
                    last_index |-> [b \in Bins |-> 0],
                    dadt_l_list |-> ZeroList, dedt_l_list |-> ZeroList,
                    mdot_l |-> ZeroPair]
    /\ pc' = "bin"
    /\ call' = Call("evolve", "running")
    /\ UNCHANGED << inputs, gw, su, scafa, _evolved, _coal, _freq_orb_rest,
                    _first_index, _last_index, step >>

NewRaise(exc) ==
    /\ pc' = "idle"
    /\ call' = Call("evolve", exc)

\* the head of the loop over the binaries: risco is read from the arena
\* entry at idx, then the first entry of the binary is written
NewStartBinary ==
    /\ pc = "bin"
    /\ ev.bin <= NumBin
    /\ LET idx == ev.idx
           b == ev.bin
           ms0 == << Fin(pop.bin[b].mass[1]), Fin(pop.bin[b].mass[2]) >>
           sp0 == Fin(pop.bin[b].sepa)
           ec0 == Fin(pop.bin[b].eccen)
           tl0 == Fin(TlookOfScafa(pop.bin[b].scafa))
           rate == NewHardeningRate(sp0, ms0, ec0)
       IN IF idx >= ALen(mass)
          THEN /\ NewRaise("IndexError")
               /\ UNCHANGED << track, redz, ev >>
          ELSE IF \E i \in DOMAIN hard : hard[i] \in InvalidModels
          THEN \* hard.dadt_dedt of a class that has none, in _hardening_rate
               /\ NewRaise("AttributeError")
               /\ sepa' = [sepa EXCEPT ![idx] = sp0]
               /\ mass' = [mass EXCEPT ![idx] = ms0]
               /\ tlook' = [tlook EXCEPT ![idx] = tl0]
               /\ redz' = [redz EXCEPT ![idx] = RedzOfTlook(tl0)]
               /\ eccen' = IF pop.has_eccen THEN [eccen EXCEPT ![idx] = ec0] ELSE eccen
               /\ ev' = [ev EXCEPT !.risco = RadIscoF(mass[idx]), !.my_steps = 0, !.left = idx]
               /\ UNCHANGED << mdot, scafa, dadt, dedt >>
          ELSE /\ sepa' = [sepa EXCEPT ![idx] = sp0]
               /\ mass' = [mass EXCEPT ![idx] = ms0]
               /\ tlook' = [tlook EXCEPT ![idx] = tl0]
               /\ redz' = [redz EXCEPT ![idx] = RedzOfTlook(tl0)]
               /\ eccen' = IF pop.has_eccen THEN [eccen EXCEPT ![idx] = ec0] ELSE eccen
               /\ ev' = [ev EXCEPT !.risco = RadIscoF(mass[idx]),
                                   !.my_steps = 0,
                                   !.left = idx,
                                   !.dadt_l_list = rate.dadt,
                                   !.dedt_l_list = rate.dedt,
                                   !.mdot_l = rate.mdot]
               /\ pc' = "loop"
               /\ UNCHANGED << call, mdot, scafa, dadt, dedt >>
    /\ UNCHANGED << inputs, gw, su, _evolved, _coal, _freq_orb_rest, _first_index, _last_index, step >>

\* (alternative: the loop also stops after the first step of a binary)
LoopCond_OneStep ==
    /\ FLt(Fin(1001 * ev.risco), FMul(Fin(1000), sepa[ev.idx]))
    /\ FGt0(tlook[ev.idx])
    /\ FLt(Fin(RedzFloor), redz[ev.idx])
    /\ ev.my_steps < 1
\* the condition of the while loop
LoopCond ==
    /\ FLt(Fin(1001 * ev.risco), FMul(Fin(1000), sepa[ev.idx]))
    /\ FGt0(tlook[ev.idx])
    /\ FLt(Fin(RedzFloor), redz[ev.idx])

\* dt <= 0.0 or ~np.isfinite(dt)
InvalidDt(dt) == ~IsFinite(dt) \/ dt.v <= 0

\* One pass of the while loop, in the order of the code, last stage first.
\* The final right edge for the time step dt and the averaged rates avg:
StepFinal(lft, g, avg, dt) ==
    [dt |-> dt,
     sp_g |-> g.sp, ec_g |-> g.ec, ms_g |-> g.ms, tl_g |-> g.tl,
     sp |-> FAdd(lft.sp, FMul(avg.dadt, dt)),
     ec |-> FAdd(lft.ec, FMul(avg.dedt, dt)),
     ms |-> PairAdd(lft.ms, avg.mdot, dt),
     tl |-> FSub(lft.tl, dt),
     dadt_list |-> avg.dadt_list, dedt_list |-> avg.dedt_list, mdot |-> avg.mdot,
     invalid |-> InvalidDt(dt)]

\* the increment, and the reset of a step that went past the ISCO radius:
\*   dt = (self.sepa[right] - self.sepa[left]) / dadt
StepIncrement(lft, g, avg, dt) ==
    LET sp_1 == FAdd(lft.sp, FMul(avg.dadt, dt))
    IN StepFinal(lft, g, avg,
                 IF FLt(sp_1, Fin(ev.risco))
                 THEN FDiv(FSub(sp_1, lft.sp), avg.dadt)
                 ELSE dt)

\* the averaged rates, and the smaller of the two time steps
StepAverage(lft, g, rr, dtl, dtr) ==
    LET dadt_list == [i \in DOMAIN hard |-> FHalf(FAdd(ev.dadt_l_list[i], rr.dadt[i]))]
        dedt_list == [i \in DOMAIN hard |-> FHalf(FAdd(ev.dedt_l_list[i], rr.dedt[i]))]
    IN StepIncrement(lft, g,
                     [dadt_list |-> dadt_list,
                      dedt_list |-> dedt_list,
                      dadt |-> FSum(dadt_list),
                      dedt |-> IF pop.has_eccen THEN FSum(dedt_list) ELSE Fin(0),
                      mdot |-> << FHalf(FAdd(ev.mdot_l[1], rr.mdot[1])),
                                  FHalf(FAdd(ev.mdot_l[2], rr.mdot[2])) >>],
                     FMinSeq(<< dtl, dtr >>))

\* the rates on the guessed right edge and the time step they allow
StepRight(lft, g, rr, dtl) ==
    StepAverage(lft, g, rr, dtl,
                FMinSeq(_get_timestep_from_rates(
                            g.sp, g.ec, g.ms, FSum(rr.dadt),
                            IF pop.has_eccen THEN FSum(rr.dedt) ELSE Fin(0), rr.mdot)
                        \o << lft.tl, Fin(_TIME_STEP_MAX) >>))

StepRates(lft, g, dtl) == StepRight(lft, g, NewHardeningRate(g.sp, g.ms, g.ec), dtl)

\* the guessed right edge
StepGuess(lft, dtl) ==
    StepRates(lft,
              [sp |-> FAdd(lft.sp, FMul(lft.dadt, dtl)),
               ec |-> FAdd(lft.ec, FMul(lft.dedt, dtl)),
               ms |-> PairAdd(lft.ms, ev.mdot_l, dtl),
               tl |-> FSub(lft.tl, dtl)],
              dtl)

\* the left edge: the summed rates and the time step they allow
StepLeft(lft) ==
    StepGuess(lft,
              FMinSeq(_get_timestep_from_rates(lft.sp, lft.ec, lft.ms,
                                               lft.dadt, lft.dedt, ev.mdot_l)
                      \o << lft.tl, Fin(_TIME_STEP_MAX) >>))

NewStepCalc ==
    StepLeft([sp |-> sepa[ev.left],
              ec |-> IF pop.has_eccen THEN eccen[ev.left] ELSE Fin(0),
              ms |-> mass[ev.left],
              tl |-> tlook[ev.left],
              dadt |-> FSum(ev.dadt_l_list),
              dedt |-> IF pop.has_eccen THEN FSum(ev.dedt_l_list) ELSE Fin(0)])

\* one pass of the while loop
NewLoopStep ==
    /\ pc = "loop"
    /\ LoopCond
    /\ LET right == ev.idx + 1
           grow == right >= ev.arr_size
           nsteps == _NSTEPS * NumBin
           G(a, v) == IF grow THEN Grow(a, nsteps, v) ELSE a
           c == NewStepCalc
           ev1 == [ev EXCEPT !.idx = right, !.right = right,
                             !.arr_size = IF grow THEN @ + nsteps ELSE @]
           ev2 == [ev1 EXCEPT !.left = right, !.dadt_l_list = c.dadt_list]
       IN IF ev.my_steps > MAX_BIN_STEPS
          THEN \* the step budget of the binary is used up
               /\ NewRaise("RuntimeError")
               /\ ev' = [ev EXCEPT !.idx = right, !.right = right]
               /\ UNCHANGED << track, redz >>
          ELSE IF c.invalid
          THEN \* "Next timestep is invalid!": the guessed right edge stays
               /\ NewRaise("RuntimeError")
               /\ ev' = ev1
               /\ sepa' = [G(sepa, Fin(0)) EXCEPT ![right] = c.sp]
               /\ eccen' = IF pop.has_eccen
                           THEN [G(eccen, Fin(0)) EXCEPT ![right] = c.ec_g] ELSE eccen
               /\ mass' = [G(mass, ZeroPair) EXCEPT ![right] = c.ms_g]
               /\ tlook' = [G(tlook, Fin(0)) EXCEPT ![right] = c.tl_g]
               /\ redz' = [G(redz, Fin(0)) EXCEPT ![right] = RedzOfTlook(c.tl_g)]
               /\ dadt' = G(dadt, ZeroList)
               /\ dedt' = IF pop.has_eccen THEN G(dedt, ZeroList) ELSE dedt
               /\ UNCHANGED << mdot, scafa >>
          ELSE /\ sepa' = [G(sepa, Fin(0)) EXCEPT ![right] = c.sp]
               /\ eccen' = IF pop.has_eccen
                           THEN [G(eccen, Fin(0)) EXCEPT ![right] = c.ec] ELSE eccen
               /\ mass' = [G(mass, ZeroPair) EXCEPT ![right] = c.ms]
               /\ tlook' = [G(tlook, Fin(0)) EXCEPT ![right] = c.tl]
               /\ redz' = [G(redz, Fin(0)) EXCEPT ![right] = RedzOfTlook(c.tl)]
               /\ dadt' = [G(dadt, ZeroList) EXCEPT ![right] = c.dadt_list]
               /\ UNCHANGED scafa
               /\ IF acc = "none"
                  THEN \* self.mdot is None
                       /\ NewRaise("TypeError")
                       /\ ev' = ev1
                       /\ UNCHANGED << mdot, dedt >>
                  ELSE IF right >= ALen(mdot)
                  THEN \* self.mdot is not among the arrays that grow
                       /\ NewRaise("IndexError")
                       /\ ev' = ev1
                       /\ dedt' = IF pop.has_eccen THEN G(dedt, ZeroList) ELSE dedt
                       /\ UNCHANGED mdot
                  ELSE /\ mdot' = [mdot EXCEPT ![right] = c.mdot]
                       /\ IF ~pop.has_eccen
                          THEN \* dedt_list was never bound
                               /\ NewRaise("UnboundLocalError")
                               /\ ev' = ev2
                               /\ UNCHANGED dedt
                          ELSE /\ dedt' = [G(dedt, ZeroList) EXCEPT ![right] = c.dedt_list]
                               /\ ev' = [ev2 EXCEPT !.dedt_l_list = c.dedt_list,
                                                    !.mdot_l = c.mdot,
                                                    !.my_steps = @ + 1,
                                                    !.risco = RadIscoF(c.ms)]
                               /\ UNCHANGED << pc, call >>
    /\ UNCHANGED << inputs, gw, su, _evolved, _coal, _freq_orb_rest, _first_index, _last_index, step >>

\* the loop of one binary has ended: its last index is recorded
NewFinishBinary ==
    /\ pc = "loop"
    /\ ~LoopCond
    /\ ev' = [ev EXCEPT !.last_index[ev.bin] = ev.right,
                        !.idx = @ + 1,
                        !.bin = @ + 1]
    /\ pc' = "bin"
    /\ UNCHANGED << inputs, gw, su, track, redz, _evolved, _coal, _freq_orb_rest,
                    _first_index, _last_index, step, call >>

\* after the loop over the binaries: the index arrays, the assertions, and
\* the trimming of the arena
NewFinalize ==
    /\ pc = "bin"
    /\ ev.bin > NumBin
    /\ LET last_index == ev.last_index
           first_index == [b \in Bins |-> IF b = 1 THEN 0 ELSE last_index[b - 1] + 1]
           minit(b) == << Fin(pop.bin[b].mass[1]), Fin(pop.bin[b].mass[2]) >>
           asserts == \A b \in Bins :
                         /\ sepa[first_index[b]] = Fin(pop.bin[b].sepa)
                         /\ mass[first_index[b]] = minit(b)
                         /\ FLe(minit(b)[1], mass[last_index[b]][1])
                         /\ FLe(minit(b)[2], mass[last_index[b]][2])
           end == last_index[NumBin] + 1
       IN /\ _last_index' = last_index
          /\ _first_index' = first_index
          /\ IF ~asserts
             THEN /\ NewRaise("AssertionError")
                  /\ UNCHANGED << track, redz >>
             ELSE /\ sepa' = Trim(sepa, end)
                  /\ mass' = Trim(mass, end)
                  /\ tlook' = Trim(tlook, end)
                  /\ redz' = Trim(redz, end)
                  /\ dadt' = Trim(dadt, end)
                  /\ UNCHANGED scafa
                  /\ IF acc = "none"
                     THEN /\ NewRaise("TypeError")
                          /\ UNCHANGED << mdot, eccen, dedt >>
                     ELSE /\ mdot' = Trim(mdot, end)
                          /\ eccen' = IF pop.has_eccen THEN Trim(eccen, end) ELSE eccen
                          /\ dedt' = IF pop.has_eccen THEN Trim(dedt, end) ELSE dedt
                          /\ NewRaise("none")
    /\ UNCHANGED << inputs, gw, su, ev, _evolved, _coal, _freq_orb_rest, step >>

\* ---------------------------------------------------------------------------
\* gravwaves.GW_Discrete: the Monte-Carlo synthesis of the strain spectra
\* ---------------------------------------------------------------------------
NFreq == 2                     \* freqs.size
NHarms == 3                    \* Grav_Waves.nharms
NReals == 2                    \* Grav_Waves.nreals
NLoudest == 2                  \* nloudest of emit()
GOne == 1000                   \* the harmonic weight 1.0
ZOne == 1000                   \* redshift 1.0

Freqs == 1..NFreq
Reals == 1..NReals
HarmNums == 1..NHarms

\* the eccen argument of emit(): None, True, False, or anything else
EccenArgs == { "None", "True", "False", "other" }

\* harm_range of emit(): range(1, nharms+1) when eccentric, [2] otherwise
harm_range(ecc) == IF ecc THEN HarmNums ELSE {2}

\* utils.a_to_z: redz = 1/scafa - 1
a_to_z(s) ==
    IF IsNaN(s) THEN NaN
    ELSE IF s.k = "inf" THEN Fin(-ZOne)
    ELSE IF s.v = 0 THEN PInf
    ELSE Fin(((ZOne * ScafaOne) \div s.v) - ZOne)

\* valid = np.isfinite(redz) & (redz > 0.0)
ValidRedz(z) == IsFinite(z) /\ FGt0(z)

\* utils.gw_freq_dist_func(n, e), in units of GOne, at the eccentricities of the
\* inputs: the recursion divides by n*e, so that e = 0 gives NaN for every n
GTable == (EccMid :> << 22, 266, 832 >>)

gw_freq_dist_func(n, e) ==
    IF ~IsFinite(e) \/ e.v = 0 THEN NaN ELSE Fin(GTable[e.v][n])

\* sel_e0 = (eccen[valid] < 1e-8)
SelE0(e) == e.k # "nan" /\ e.v <= 0

\* (alternative: the weight of the formula, without the override at e = 0)
Gne_Formula(has_eccen, n, e) ==
    IF ~has_eccen THEN Fin(GOne) ELSE gw_freq_dist_func(n, e)
\* gne of one valid element: 1 when the track has no eccentricities, otherwise
\* the formula's value, overridden where the eccentricity is below 1e-8
Gne(has_eccen, n, e) ==
    IF ~has_eccen THEN Fin(GOne)
    ELSE IF SelE0(e) THEN (IF n = 2 THEN Fin(GOne) ELSE Fin(0))
    ELSE gw_freq_dist_func(n, e)

\* (alternative: no factor for the harmonic)
HarmFac_One(n) == 9
\* 9 * (2.0 / harms)**2
HarmFac(n) == 36 \div (n * n)

\* what bin_evo.at('fobs', fobs / harm_range, ...) gives for one binary at one
\* frequency, with the quantities derived from it: per harmonic n the scale
\* factor ('time'), the eccentricity, hs2, num_frac, and the Poisson draws of
\* num_frac for each realization.  Outside the track every parameter is NaN
SrcQuiet ==
    [time |-> << Fin(16), Fin(16), Fin(16) >>,
     eccen |-> << Fin(EccMid), Fin(EccMid), Fin(EccMid) >>,
     hs2 |-> << 3, 3, 3 >>, num_frac |-> << 0, 0, 0 >>,
     pois |-> << <<0, 0>>, <<0, 0>>, <<0, 0>> >>]
SrcCirc ==
    [time |-> << Fin(16), Fin(16), Fin(16) >>,
     eccen |-> << Fin(0), Fin(0), Fin(0) >>,
     hs2 |-> << 5, 5, 5 >>, num_frac |-> << 2, 2, 2 >>,
     pois |-> << <<2, 1>>, <<2, 1>>, <<2, 0>> >>]
SrcEcc ==
    [time |-> << Fin(8), Fin(8), Fin(8) >>,
     eccen |-> << Fin(EccMid), Fin(EccMid), Fin(EccMid) >>,
     hs2 |-> << 2, 4, 6 >>, num_frac |-> << 1, 1, 3 >>,
     pois |-> << <<1, 0>>, <<1, 2>>, <<3, 1>> >>]
SrcLate ==
    [time |-> << NaN, Fin(ScafaOne), Fin(24) >>,
     eccen |-> << NaN, Fin(0), Fin(0) >>,
     hs2 |-> << 7, 7, 7 >>, num_frac |-> << 1, 1, 1 >>,
     pois |-> << <<1, 1>>, <<1, 1>>, <<1, 0>> >>]
SrcChoices == { SrcQuiet, SrcCirc, SrcEcc, SrcLate }

\* the data of all binaries at one frequency
SrcData == { [b \in Bins |-> pr[((b - 1) % 2) + 1]] : pr \in [1..2 -> SrcChoices] }

\* np.sum over a set of elements
RECURSIVE SumOver(_, _)
SumOver(S, val) ==
    IF S = {} THEN Fin(0)
    ELSE LET p == CHOOSE q \in S : TRUE IN FAdd(val[p], SumOver(S \ {p}, val))

\* np.sort(...)[::-1]: descending, the NaNs (sorted last by np.sort) first
GeNaNFirst(x, y) == IsNaN(x) \/ (~IsNaN(y) /\ FLe(y, x))
RECURSIVE SortDesc(_, _)
SortDesc(S, val) ==
    IF S = {} THEN << >>
    ELSE LET m == CHOOSE p \in S : \A q \in S : GeNaNFirst(val[p], val[q])
         IN << val[m] >> \o SortDesc(S \ {m}, val)

\* (alternative: the foreground added to the total)
McBack_Sum(both, fore) == FAdd(both, fore)
\* mc_ecc_back = mc_ecc_both - mc_ecc_fore, and the same for mc_circ_back
McBack(both, fore) == FSub(both, fore)

\* _calc_mc_at_fobs for the data `src` of one frequency
_calc_mc_at_fobs(harms, has_eccen, src) ==
    LET valid == {p \in Bins \X harms : ValidRedz(a_to_z(src[p[1]].time[p[2]]))}
        gne == [p \in valid |-> Gne(has_eccen, p[2], src[p[1]].eccen[p[2]])]
        temp == [p \in valid |->
                    FMul(FMul(Fin(src[p[1]].hs2[p[2]]), gne[p]), Fin(HarmFac(p[2])))]
        n2 == [p \in valid |-> Fin(IF p[2] = 2 THEN 1 ELSE 0)]
        pois == [p \in valid |-> src[p[1]].pois[p[2]]]
        frac == [p \in valid |-> Fin(src[p[1]].num_frac[p[2]])]
        any == \E p \in valid : \E r \in Reals : pois[p][r] > 0
        drawn == [r \in Reals |-> [p \in valid |->
                    FMul(temp[p], Fin(IF pois[p][r] > 0 THEN 1 ELSE 0))]]
        sorted == [r \in Reals |-> SortDesc(valid, drawn[r])]
        rows == Min2(Cardinality(valid), NLoudest)
        ecc_both == [r \in Reals |->
                        SumOver(valid, [p \in valid |-> FMul(temp[p], Fin(pois[p][r]))])]
        circ_both == [r \in Reals |->
                        SumOver(valid, [p \in valid |->
                            FMul(FMul(temp[p], Fin(pois[p][r])), n2[p])])]
        ecc_fore == [r \in Reals |-> IF any THEN sorted[r][1] ELSE Fin(0)]
        circ_fore == [r \in Reals |->
                        IF any
                        THEN SortDesc(valid, [p \in valid |-> FMul(drawn[r][p], n2[p])])[1]
                        ELSE Fin(0)]
    IN [valid |-> valid, gne |-> gne, temp |-> temp,
        ecc_fore |-> ecc_fore,
        ecc_back |-> [r \in Reals |-> McBack(ecc_both[r], ecc_fore[r])],
        ecc_both |-> ecc_both,
        circ_fore |-> circ_fore,
        circ_back |-> [r \in Reals |-> McBack(circ_both[r], circ_fore[r])],
        circ_both |-> circ_both,
        sa_ecc |-> SumOver(valid, [p \in valid |-> FMul(temp[p], frac[p])]),
        sa_circ |-> SumOver(valid, [p \in valid |-> FMul(FMul(temp[p], frac[p]), n2[p])]),
        loud |-> IF any THEN [l \in 1..rows |-> [r \in Reals |-> sorted[r][l]]]
                 ELSE [l \in 1..NLoudest |-> [r \in Reals |-> Fin(0)]]]

\* np.sqrt, rounded down: NaN for a negative value
RECURSIVE ISqrt(_, _, _)
ISqrt(n, lo, hi) ==
    IF lo >= hi THEN lo
    ELSE LET mid == (lo + hi + 1) \div 2
         IN IF mid * mid <= n THEN ISqrt(n, mid, hi) ELSE ISqrt(n, lo, mid - 1)

FSqrt(x) ==
    IF IsNaN(x) THEN NaN
    ELSE IF x.k = "inf" THEN (IF x.v > 0 THEN PInf ELSE NaN)
    ELSE IF x.v < 0 THEN NaN
    ELSE Fin(ISqrt(x.v, 0, Min2(x.v, 46340)))

\* np.zeros((freqs.size, nreals)) and the other arrays emit() allocates
ZerosFR == [f \in Freqs |-> [r \in Reals |-> Fin(0)]]
EmitZeros ==
    [eccen_fore |-> ZerosFR, eccen_back |-> ZerosFR, eccen_both |-> ZerosFR,
     circ_fore |-> ZerosFR, circ_back |-> ZerosFR, circ_both |-> ZerosFR,
     loudest |-> [f \in Freqs |-> [l \in 1..NLoudest |-> [r \in Reals |-> Fin(0)]]],
     sa_eccen |-> [f \in Freqs |-> Fin(0)],
     sa_circ |-> [f \in Freqs |-> Fin(0)]]

\* a GW_Discrete over a binary evolution whose at() takes the parameter list of
\* _calc_mc_at_fobs; emit() was not called yet
InitGW ==
    /\ cls = "GW_Discrete"
    /\ pop = << >> /\ hard = << >> /\ acc = "none"
    /\ sepa = << >> /\ mass = << >> /\ mdot = << >> /\ tlook = << >>
    /\ eccen = << >> /\ dadt = << >> /\ dedt = << >> /\ redz = << >>
    /\ scafa = << >>
    /\ ev = << >>
    /\ _first_index = << >>
    /\ _last_index = << >>
    /\ _evolved = TRUE
    /\ _coal = [set |-> FALSE, val |-> [b \in Bins |-> FALSE]]
    /\ _freq_orb_rest = [set |-> FALSE, val |-> << >>]
    /\ pc = "idle"
    /\ step = 0
    /\ call = Call("init", "none")
    /\ su = << >>
    /\ \E he \in BOOLEAN :
          gw = [has_eccen |-> he,      \* bin_evo.eccen is not None
                arg |-> "None",        \* the eccen argument of the running emit()
                eccen |-> he,          \* the local eccen of emit()
                ii |-> 0,              \* the frequencies emit() has done
                src |-> << >>,         \* the data of the frequencies done
                mc |-> << >>,          \* what _calc_mc_at_fobs returned for them
                loc |-> EmitZeros,     \* the local arrays of emit()
                out |-> << >>]         \* the attributes emit() sets

evo == << track, adaptive, _evolved, _coal, _freq_orb_rest, step, su >>

\* emit(): the argument check and the allocation of the arrays (lines 34-59).
\* emit() is called on an instance until it has returned once
EmitStart ==
    /\ cls = "GW_Discrete" /\ pc = "idle" /\ gw.out = << >>
    /\ \E arg \in EccenArgs :
          IF arg = "other"
          THEN /\ call' = Call("emit", "ValueError")
               /\ UNCHANGED << pc, gw >>
          ELSE /\ gw' = [gw EXCEPT !.arg = arg,
                                   !.eccen = IF arg = "None" THEN gw.has_eccen
                                             ELSE arg = "True",
                                   !.ii = 0, !.src = << >>, !.mc = << >>,
                                   !.loc = EmitZeros]
               /\ pc' = "emit"
               /\ call' = Call("emit", "running")
    /\ UNCHANGED << inputs, evo >>

\* loudest[ii, :] = loud: the rows of loud are broadcast when there is one only
FitsLoudest(loud) == Len(loud) = NLoudest \/ Len(loud) = 1

\* one pass of the loop of emit() over the frequencies (lines 61-75)
EmitFreq ==
    /\ cls = "GW_Discrete" /\ pc = "emit" /\ gw.ii < NFreq
    /\ \E src \in SrcData :
          LET rv == _calc_mc_at_fobs(harm_range(gw.eccen), gw.has_eccen, src)
              ii == gw.ii + 1
          IN IF ~FitsLoudest(rv.loud)
             THEN /\ pc' = "idle"
                  /\ call' = Call("emit", "ValueError")
                  /\ UNCHANGED gw
             ELSE /\ gw' = [gw EXCEPT
                              !.ii = ii,
                              !.src = Append(gw.src, src),
                              !.mc = Append(gw.mc, rv),
                              !.loc = [gw.loc EXCEPT
                                  !.eccen_fore[ii] = rv.ecc_fore,
                                  !.eccen_back[ii] = rv.ecc_back,
                                  !.eccen_both[ii] = rv.ecc_both,
                                  !.circ_fore[ii] = rv.circ_fore,
                                  !.circ_back[ii] = rv.circ_back,
                                  !.circ_both[ii] = rv.circ_both,
                                  !.sa_eccen[ii] = rv.sa_ecc,
                                  !.sa_circ[ii] = rv.sa_circ,
                                  !.loudest[ii] = [l \in 1..NLoudest |->
                                      rv.loud[IF Len(rv.loud) = 1 THEN 1 ELSE l]]]]
                  /\ UNCHANGED << pc, call >>
    /\ UNCHANGED << inputs, evo >>

\* the end of emit(): the square roots are stored on the instance (lines 77-89)
EmitFinish ==
    /\ cls = "GW_Discrete" /\ pc = "emit" /\ gw.ii = NFreq
    /\ gw' = [gw EXCEPT !.out =
                [eccen_fore |-> [f \in Freqs |-> [r \in Reals |-> FSqrt(gw.loc.eccen_fore[f][r])]],
                 eccen_back |-> [f \in Freqs |-> [r \in Reals |-> FSqrt(gw.loc.eccen_back[f][r])]],
                 eccen_both |-> [f \in Freqs |-> [r \in Reals |-> FSqrt(gw.loc.eccen_both[f][r])]],
                 circ_fore |-> [f \in Freqs |-> [r \in Reals |-> FSqrt(gw.loc.circ_fore[f][r])]],
                 circ_back |-> [f \in Freqs |-> [r \in Reals |-> FSqrt(gw.loc.circ_back[f][r])]],
                 circ_both |-> [f \in Freqs |-> [r \in Reals |-> FSqrt(gw.loc.circ_both[f][r])]],
                 sa_eccen |-> [f \in Freqs |-> FSqrt(gw.loc.sa_eccen[f])],
                 sa_circ |-> [f \in Freqs |-> FSqrt(gw.loc.sa_circ[f])],
                 loudest |-> [f \in Freqs |-> [l \in 1..NLoudest |-> [r \in Reals |->
                                 FSqrt(gw.loc.loudest[f][l][r])]]]]]
    /\ pc' = "idle"
    /\ call' = Call("emit", "none")
    /\ UNCHANGED << inputs, evo >>

\* ---------------------------------------------------------------------------
\* Evolution.sample_universe
\* ---------------------------------------------------------------------------
WOne == 1000                   \* the weight 1.0

\* the down_sample argument: None, or a factor
DownSamples == { [set |-> FALSE, val |-> 1], [set |-> TRUE, val |-> 2],
                 [set |-> TRUE, val |-> 4] }

\* the weight of a binary at a frequency (num_binaries), a multiple of the
\* down-sample factors so that weights / down_sample is exact
WeightChoices == { [b \in Bins |-> 3 * WOne], [b \in Bins |-> 4 * WOne * b] }

\* weights / down_sample in _sample_universe__resample
DownSampled(w, ds) == IF ds.set THEN w \div ds.val ELSE w

\* (alternative: the caller's weights are the down-sampled ones)
ReturnedWeights_Scaled(orig, scaled) == scaled
\* the weights sample_universe returns: _sample_universe__resample rebinds its
\* own name `weights`, the array of the caller is not changed
ReturnedWeights(orig, scaled) == orig

\* np.random.poisson(lam): 0 when lam is 0, otherwise any count
PoissonDraws(lam) ==
    IF lam = 0 THEN {0} ELSE {0, lam \div WOne, (lam \div WOne) + 1}

RECURSIVE SumInt(_, _)
SumInt(S, val) ==
    IF S = {} THEN 0
    ELSE LET p == CHOOSE q \in S : TRUE IN val[p] + SumInt(S \ {p}, val)

\* sample_universe(fobs_orb_edges, down_sample): at() at the centers of the
\* bins, the weights of the elements with redz > 0, the Poisson draw of the
\* size of the catalog, the resampling, and the return of the weights.
\* sample_universe() is called on an instance until it has returned once
SampleUniverse ==
    /\ cls = "Evolution"
    /\ pc = "idle"
    /\ su = << >>
    /\ IF NotEvolved
       THEN /\ call' = Call("sample_universe", "RuntimeError")
            /\ UNCHANGED << su, _freq_orb_rest >>
       ELSE LET frest == FreqOrbRestUsed
                xold == XOld("fobs", frest)
            IN \E xnew \in TargetLists(xold) :
                 /\ _freq_orb_rest' = [set |-> TRUE, val |-> frest]
                 /\ IF OutOfBounds(xnew, xold)
                    THEN /\ call' = Call("sample_universe", "ValueError")
                         /\ UNCHANGED su
                    ELSE IF ~pop.has_eccen
                    THEN /\ call' = Call("sample_universe", "TypeError")
                         /\ UNCHANGED su
                    ELSE \E ds \in DownSamples, wsel \in WeightChoices :
                           LET rv == AtResult("fobs", xnew, FALSE, frest, CoalUsed)
                               valid == {p \in Bins \X DOMAIN xnew :
                                           FGt0(a_to_z(rv.data["scafa"][p[1]][p[2]]))}
                               weights == [p \in valid |-> wsel[p[1]]]
                               scaled == [p \in valid |-> DownSampled(weights[p], ds)]
                               lam == SumInt(valid, scaled)
                           IN \E nsamp \in PoissonDraws(lam) :
                                /\ su' = [down_sample |-> ds,
                                          weights |-> weights,
                                          mean |-> lam,
                                          nsamp |-> nsamp,
                                          ret |-> ReturnedWeights(weights, scaled)]
                                /\ call' = Call("sample_universe", "none")
    /\ UNCHANGED << inputs, gw, track, _evolved, _coal, adaptive, pc, step >>

vars == << cls, pop, hard, acc, sepa, mass, mdot, scafa, tlook, eccen, dadt, dedt,
           _evolved, _coal, _freq_orb_rest, redz, ev, _first_index, _last_index,
           pc, step, call, gw, su >>

Init == InitEvolution \/ InitNewEvolution \/ InitRejected

Next ==
    \/ EvolveStart
    \/ TakeNextStep
    \/ Finalize
    \/ AtNotEvolved
    \/ AtBadXpar
    \/ At
    \/ Modify
    \/ ReadCoal
    \/ ReadFreqOrbRest
    \/ NewEvolveStart
    \/ NewStartBinary
    \/ NewLoopStep
    \/ NewFinishBinary
    \/ NewFinalize

Spec == Init /\ [][Next]_vars

\* the synthesis, on its own instance
NextGW ==
    \/ EmitStart
    \/ EmitFreq
    \/ EmitFinish

SpecGW == InitGW /\ [][NextGW]_vars

\* the fixed-step integration followed by the resampling
NextSU ==
    \/ EvolveStart
    \/ TakeNextStep
    \/ Finalize
    \/ SampleUniverse

SpecSU == InitEvolution /\ [][NextSU]_vars

\* ---------------------------------------------------------------------------
\* Properties of the fixed-step integrator and of at()
\* ---------------------------------------------------------------------------
\* evolve() has returned without raising, and nothing was called since
Returned == cls = "Evolution" /\ pc = "idle" /\ call = Call("evolve", "none")

\* at() can be called and gets past _check_evolved
Evolved == cls = "Evolution" /\ pc = "idle" /\ _evolved = TRUE

\* the stored track is that of an evolve() that returned without raising
Completed == Evolved /\ ~CheckFails(mass, tlook, dadt, eccen, dedt)

XPars == {"fobs", "sepa"}

\* the x-values at() works on, and the single-target call at(xpar, x, coal=c)
AtXOld(xpar) == XOld(xpar, FreqOrbRestUsed)
AtOne(xpar, x, c) == AtResult(xpar, << x >>, c, FreqOrbRestUsed, CoalUsed)

\* the entry of binary b is the missing-value sentinel in every parameter
AllMissing(r, b) == \A par \in EvoPars : IsNaN(r.data[par][b][1])

\* C1: after the fixed-step evolve() returns without error, the stored
\* separation of every binary never increases from one step to the next
C1_SepaNonIncreasing ==
    Returned =>
        \A b \in Bins : \A s \in 1..LastStep : sepa[b][s] <= sepa[b][s - 1]

C1_Witness ==
    /\ Returned
    /\ \E b \in Bins : \A s \in 1..LastStep : sepa[b][s] < sepa[b][s - 1]

\* C4: without an accretion model, or with one whose evol_mass is False,
\* both masses of every binary at every step are the population's masses
C4_MassesFixed ==
    (Returned /\ acc # "evolve") =>
        \A b \in Bins : \A s \in Steps : mass[b][s] = PopMassF(b)

C4_Witness ==
    /\ Returned
    /\ acc = "fixed"
    /\ \A b \in Bins : mdot[b][0] = pref_acc /\ mass[b][LastStep] = PopMassF(b)

C6_RoundTrip ==
    Completed =>
        \A b \in Bins : \A s \in Steps :
            LET f == freq_orb_obs(FreqOrbRestNow)[b][s]
                r == AtOne("fobs", f.v, FALSE)
            IN \A par \in EvoPars : r.data[par][b][1] = YOld(par, b, s, FALSE)

\* the same round trip for the steps after the first one
C6_RoundTripLater ==
    Completed =>
        \A b \in Bins : \A s \in 1..LastStep :
            LET f == freq_orb_obs(FreqOrbRestNow)[b][s]
                r == AtOne("fobs", f.v, FALSE)
            IN \A par \in EvoPars : r.data[par][b][1] = YOld(par, b, s, FALSE)

\* x lies within the range spanned by the track of binary b
InOwnRange(xold, b, x) ==
    /\ \E j \in Steps : FLe(xold[b][j], Fin(x))
    /\ \E j \in Steps : FLe(Fin(x), xold[b][j])

\* C7: at() gives binary b a value that is not missing only when the target
\* lies within b's own track; the value then comes from two adjacent steps
\* that bracket the target, with a fraction in [0, 1]; for a target outside
\* b's track every parameter of b is NaN
C7_NoExtrapolation ==
    Evolved =>
        \A xpar \in XPars :
            LET xold == AtXOld(xpar)
            IN \A x \in TargetCands(xold) : \A c \in BOOLEAN :
                 LET r == AtOne(xpar, x, c)
                 IN \A b \in Bins :
                      LET aft == r.aft[b][1]
                          bef == r.bef[b][1]
                          fr == r.frac[b][1]
                          missing == AllMissing(r, b)
                          inside == InOwnRange(xold, b, x)
                      IN /\ ~missing =>
                              /\ inside
                              /\ aft = bef + 1
                              /\ FLe(xold[b][bef], Fin(x))
                              /\ FLe(Fin(x), xold[b][aft])
                              /\ fr.den > 0 /\ 0 <= fr.num /\ fr.num <= fr.den
                         /\ ~inside => missing

C7_Witness ==
    /\ Completed
    /\ call = Call("at", "none")
    /\ \E b \in Bins : \E x \in Between(AtXOld("sepa")) :
          LET r == AtOne("sepa", x, FALSE)
          IN /\ ~AllMissing(r, b)
             /\ 0 < r.frac[b][1].num
             /\ r.frac[b][1].num < r.frac[b][1].den
    /\ \E b \in Bins : AllMissing(AtOne("sepa", Above(AtXOld("sepa")), FALSE), b)

\* C8: with coal=True at() returns NaN in every parameter for every binary
\* whose scale factor at the last step is not below 1.0, and for the other
\* binaries what it returns with coal=False
C8_CoalOnly ==
    Completed =>
        \A xpar \in XPars : \A b \in Bins :
            \A x \in TargetCands(AtXOld(xpar)) :
                LET rt == AtOne(xpar, x, TRUE)
                    rf == AtOne(xpar, x, FALSE)
                IN IF scafa[b][LastStep] >= ScafaOne
                   THEN AllMissing(rt, b)
                   ELSE \A par \in EvoPars : rt.data[par][b][1] = rf.data[par][b][1]

\* no target lies inside [min, max] of the x-values of all binaries and steps
NoneInside(xnew, xold) ==
    \A t \in DOMAIN xnew :
        \/ \A b \in Bins : \A j \in Steps : xnew[t] < xold[b][j].v
        \/ \A b \in Bins : \A j \in Steps : xnew[t] > xold[b][j].v

\* C9 (as stated): at() raises ValueError exactly when no target lies inside
\* [min, max] of the independent variable over all binaries and steps,
\* target sets partly below and partly above included
C9_RaisesIffNoneInside ==
    Completed =>
        \A xpar \in XPars : \A xnew \in TargetLists(AtXOld(xpar)) :
            OutOfBounds(xnew, AtXOld(xpar)) <=> NoneInside(xnew, AtXOld(xpar))

\* C9 (amended): at() raises ValueError exactly when every stored x-value is
\* finite and either all targets lie below all of them or all targets lie
\* above all of them; a target set with members on both sides and none
\* inside is not rejected, and every entry returned for it is NaN
C9_RaisesIffOneSided ==
    Evolved =>
        \A xpar \in XPars :
            LET xold == AtXOld(xpar)
            IN \A xnew \in TargetLists(xold) :
                 LET allbelow == \A t \in DOMAIN xnew : \A b \in Bins : \A j \in Steps :
                                     xnew[t] < xold[b][j].v
                     allabove == \A t \in DOMAIN xnew : \A b \in Bins : \A j \in Steps :
                                     xnew[t] > xold[b][j].v
                 IN /\ OutOfBounds(xnew, xold) <=> (AllFinite(xold) /\ (allbelow \/ allabove))
                    /\ (Completed /\ NoneInside(xnew, xold) /\ ~OutOfBounds(xnew, xold)) =>
                           LET r == AtResult(xpar, xnew, FALSE, FreqOrbRestUsed, CoalUsed)
                           IN \A par \in EvoPars : \A b \in Bins : \A t \in DOMAIN xnew :
                                 IsNaN(r.data[par][b][t])

C9_Witness ==
    /\ Completed
    /\ call = Call("at", "none")
    /\ LET xold == AtXOld("fobs")
           xnew == << Below(xold), Above(xold) >>
       IN /\ xnew \in TargetLists(xold)
          /\ NoneInside(xnew, xold)
          /\ ~OutOfBounds(xnew, xold)
          /\ OutOfBounds(<< Below(xold) >>, xold)
          /\ OutOfBounds(<< Above(xold) >>, xold)

\* C10: until an evolve() has gone through all its integration steps, at(),
\* modify() and freq_orb_rest each raise RuntimeError; the instance is
\* marked evolved only by an evolve() that has taken its last step
C10_RaisesBeforeEvolved ==
    [][ /\ (cls = "Evolution" /\ pc = "idle" /\ pc' = "idle" /\ _evolved # TRUE
            /\ call'.op \in {"at", "modify", "freq_orb_rest"})
           => (call'.raised = "RuntimeError" /\ UNCHANGED << track, _evolved, _freq_orb_rest >>)
        /\ (_evolved # TRUE /\ _evolved' = TRUE)
           => (pc = "evolving" /\ step = NSteps) ]_vars

C10_Witness ==
    /\ cls = "Evolution"
    /\ _evolved # TRUE
    /\ pc = "idle"
    /\ call \in {Call("at", "RuntimeError"), Call("modify", "RuntimeError"),
                 Call("freq_orb_rest", "RuntimeError")}
    /\ \E b \in Bins : sepa[b][0] # 0

\* ---------------------------------------------------------------------------
\* Properties of both integrators
\* ---------------------------------------------------------------------------
\* New_Evolution.evolve() has returned without raising
NewReturned == cls = "New_Evolution" /\ pc = "idle" /\ call = Call("evolve", "none")

\* the entry is within 0.1% of the ISCO radius of its own masses, or inside it
AtIsco(i) == FLe(FMul(Fin(1000), sepa[i]), Fin(1001 * RadIscoF(mass[i])))

EccenInBounds(e) == FLe(Fin(0), e) /\ FLe(e, Fin(EccOne - _MAX_ECCEN_ONE_MINUS))

\* C3: in every completed track of either integrator that tracks
\* eccentricity, every stored eccentricity, step 0 included, lies in
\* [0, 1 - 1e-6]
C3_EccenBounded ==
    /\ (Returned /\ pop.has_eccen) =>
          \A b \in Bins : \A s \in Steps : EccenInBounds(eccen[b][s])
    /\ (NewReturned /\ pop.has_eccen) =>
          \A i \in DOMAIN eccen : EccenInBounds(eccen[i])

\* the parts of C3 that hold and that fail: the fixed-step integrator
\* after step 0, its step 0, and the adaptive integrator
C3_FixedLaterSteps ==
    (Returned /\ pop.has_eccen) =>
        \A b \in Bins : \A s \in 1..LastStep : EccenInBounds(eccen[b][s])
C3_FixedStepZero ==
    (Returned /\ pop.has_eccen) => \A b \in Bins : EccenInBounds(eccen[b][0])
C3_Adaptive ==
    (NewReturned /\ pop.has_eccen) => \A i \in DOMAIN eccen : EccenInBounds(eccen[i])

\* ---------------------------------------------------------------------------
\* Errors of evolve()
\* ---------------------------------------------------------------------------
\* the fixed-step evolve() has raised
Raised == cls = "Evolution" /\ pc = "idle" /\ call.op = "evolve" /\ call.raised = "ValueError"

\* C11: after evolve() has raised, in an integration step or in the
\* finiteness check of _finalize, the instance is not marked as evolved, so
\* that at() raises RuntimeError
C11_NotEvolvedAfterRaise == Raised => NotEvolved

\* the errors that only the absence of optional data can cause: item
\* assignment to self.mdot = None, and the read of the local `dedt_list`
\* that is bound only when eccentricity is tracked
MissingDataErrors == {"TypeError", "UnboundLocalError"}

\* C12: with a population without eccentricity and/or without an accretion
\* model, evolve() of either integrator is never ended by an error that the
\* absence itself causes
C12_MissingDataNeverRaises ==
    (pc = "idle" /\ call.op = "evolve" /\ (~pop.has_eccen \/ acc = "none")) =>
        call.raised \notin MissingDataErrors

\* C13: a hardening model that is neither a _Hardening instance nor a
\* _Hardening subclass makes the constructor of either integrator raise, so
\* that no instance exists on which evolve() could run
C13_BadHardeningRejected ==
    (\E i \in DOMAIN hard : hard[i] \in InvalidModels) =>
        (pc = "rejected" /\ call = Call("init", "TypeError"))

\* C14: the track of a binary never holds more than MAX_BIN_STEPS
\* integration steps: evolve() raises RuntimeError before a further step is
\* taken
C14_StepCeiling ==
    /\ (cls = "New_Evolution" /\ pc \in {"bin", "loop"}) => ev.my_steps <= MAX_BIN_STEPS
    /\ NewReturned =>
          \A b \in Bins : _last_index[b] - _first_index[b] <= MAX_BIN_STEPS

\* C15: no track of an adaptive evolve() that returned holds a step whose
\* separation is larger on the right edge than on the left edge: such a
\* step ends evolve() with an error
C15_NoSoftening ==
    NewReturned =>
        \A b \in Bins : \A i \in _first_index[b]..(_last_index[b] - 1) :
            FLe(sepa[i + 1], sepa[i])

\* ---------------------------------------------------------------------------
\* Durations of the fixed-step integrator
\* ---------------------------------------------------------------------------
\* a duration that compares as negative (NaN does not)
IsNegative(dt) == dt.k # "nan" /\ dt.v < 0

\* some binary has a negative provisional or trapezoid duration at `right`
SomeNegativeDuration(right) ==
    \E b \in Bins : IsNegative(Dt1(b, right)) \/ IsNegative(Dt2(b, right))

\* C16: when the provisional or the trapezoid duration of some binary is
\* negative at a step, evolve() raises ValueError in that step, the entries
\* of the later steps are left as they were, and the instance is not
\* marked evolved
C16_NegativeDurationRaises ==
    [][ (cls = "Evolution" /\ pc = "evolving" /\ step < NSteps
          /\ SomeNegativeDuration(step)) =>
            /\ call' = Call("evolve", "ValueError")
            /\ pc' = "idle"
            /\ _evolved' # TRUE
            /\ \A b \in Bins : \A s \in (step + 1)..LastStep :
                  /\ tlook'[b][s] = tlook[b][s]
                  /\ scafa'[b][s] = scafa[b][s]
                  /\ dadt'[b][s] = dadt[b][s]
                  /\ eccen'[b][s] = eccen[b][s] ]_vars

\* evolve() has raised in a step: the second binary has a negative
\* duration, and step 2 was never written
C16_Witness ==
    /\ Raised
    /\ _evolved # TRUE
    /\ IsNegative(Dt1(2, 1))
    /\ ~IsNegative(Dt1(1, 1))
    /\ \A b \in Bins : dadt[b][LastStep] = Fin(0)

\* C17: after the fixed-step evolve() returns without error, the stored
\* lookback time of every binary never increases from one step to the next
\* (it may become negative)
C17_TlookNonIncreasing ==
    Returned =>
        \A b \in Bins : \A s \in 1..LastStep : FLe(tlook[b][s], tlook[b][s - 1])

\* a returned track whose lookback time falls at every step and ends below 0
C17_Witness ==
    /\ Returned
    /\ \E b \in Bins :
          /\ \A s \in 1..LastStep :
                FLe(tlook[b][s], tlook[b][s - 1]) /\ tlook[b][s] # tlook[b][s - 1]
          /\ FLt0(tlook[b][LastStep])

\* ---------------------------------------------------------------------------
\* Properties of the Monte-Carlo synthesis
\* ---------------------------------------------------------------------------
\* emit() has returned without raising
Emitted == cls = "GW_Discrete" /\ pc = "idle" /\ call = Call("emit", "none")

\* the sum of the (at most) n first entries of a list
RECURSIVE SumFirst(_, _)
SumFirst(q, n) ==
    IF n = 0 \/ q = << >> THEN Fin(0) ELSE FAdd(Head(q), SumFirst(Tail(q), n - 1))

\* the sources drawn at frequency f in realization r, and the summed strain
\* squared of the NLoudest loudest of them: with every drawn (binary, harmonic)
\* element one source that counts with its number, with every one of its draws
\* a source of its own, and with every drawn element one source that counts once
DrawnAt(f, r) == {p \in gw.mc[f].valid : gw.src[f][p[1]].pois[p[2]][r] > 0}
LoudestByNumber(f, r) ==
    SumFirst(SortDesc(DrawnAt(f, r),
                      [p \in DrawnAt(f, r) |->
                          FMul(gw.mc[f].temp[p], Fin(gw.src[f][p[1]].pois[p[2]][r]))]),
             NLoudest)
LoudestByDraw(f, r) ==
    LET draws == {d \in DrawnAt(f, r) \X (1..3) : d[2] <= gw.src[f][d[1][1]].pois[d[1][2]][r]}
    IN SumFirst(SortDesc(draws, [d \in draws |-> gw.mc[f].temp[d[1]]]), NLoudest)
LoudestOnce(f, r) ==
    SumFirst(SortDesc(DrawnAt(f, r), [p \in DrawnAt(f, r) |-> gw.mc[f].temp[p]]), NLoudest)

\* C18: at every frequency and in every realization the foreground that emit()
\* gives is the summed strain squared of the NLoudest loudest sources drawn in
\* that realization (under any of the three ways of counting a source), and the
\* background is the total minus that sum
C18_ForegroundIsLoudestSum ==
    Emitted => \A f \in Freqs : \A r \in Reals :
        /\ gw.loc.eccen_fore[f][r] \in
              { LoudestByNumber(f, r), LoudestByDraw(f, r), LoudestOnce(f, r) }
        /\ gw.loc.eccen_back[f][r] = FSub(gw.loc.eccen_both[f][r], gw.loc.eccen_fore[f][r])

\* the interpolated eccentricity of the element p at the f-th frequency done
EccenAt(f, p) == gw.src[f][p[1]].eccen[p[2]]
ZeroEccen(f) == {p \in gw.mc[f].valid : EccenAt(f, p) = Fin(0)}

\* C19: when the track stores eccentricities, every valid (binary, harmonic)
\* element whose interpolated eccentricity is zero is weighted with exactly 1.0
\* at n = 2 and exactly 0.0 at every other harmonic, although the formula gives
\* NaN there; so it contributes nothing outside n = 2, and where every valid
\* element has zero eccentricity the eccentric sums equal the n = 2 sums
C19_ZeroEccenWeights ==
    (cls = "GW_Discrete" /\ gw.has_eccen) =>
        \A f \in 1..Len(gw.mc) :
            /\ \A p \in ZeroEccen(f) :
                  /\ gw.mc[f].gne[p] = Fin(IF p[2] = 2 THEN GOne ELSE 0)
                  /\ p[2] # 2 => gw.mc[f].temp[p] = Fin(0)
            /\ ZeroEccen(f) = gw.mc[f].valid =>
                  /\ gw.mc[f].ecc_both = gw.mc[f].circ_both
                  /\ gw.mc[f].sa_ecc = gw.mc[f].sa_circ

\* emit() has returned from an eccentric run in which, at one frequency, a binary
\* of zero eccentricity was drawn at n = 1 and at n = 2, where the formula has no
\* value, and only its n = 2 element entered the total
C19_Witness ==
    /\ Emitted /\ gw.has_eccen /\ gw.eccen
    /\ \E f \in Freqs : \E b \in Bins :
          /\ {<<b, 1>>, <<b, 2>>} \subseteq ZeroEccen(f)
          /\ ZeroEccen(f) = gw.mc[f].valid
          /\ \A n \in 1..2 : /\ gw.src[f][b].pois[n][1] > 0
                             /\ IsNaN(gw_freq_dist_func(n, EccenAt(f, <<b, n>>)))
          /\ gw.mc[f].gne[<<b, 1>>] = Fin(0)
          /\ gw.mc[f].gne[<<b, 2>>] = Fin(GOne)
          /\ FGt0(gw.loc.eccen_both[f][1])
          /\ gw.loc.eccen_both[f][1] = gw.loc.circ_both[f][1]

\* the data of one frequency for a track that differs only in the eccentricities
\* it stores: every eccentricity inside the track is e
WithEccen(src, e) ==
    [b \in Bins |-> [src[b] EXCEPT !.eccen =
        [n \in HarmNums |-> IF IsNaN(src[b].eccen[n]) THEN NaN ELSE e]]]

Spectra(rv) == << rv.ecc_fore, rv.ecc_back, rv.ecc_both,
                  rv.circ_fore, rv.circ_back, rv.circ_both >>

\* C20: emit(eccen=False) on a track that stores eccentricities evaluates the
\* n = 2 harmonic only and weights every source with g = 1, so that the same run
\* on a track that differs only in its eccentricities, with the same Poisson
\* draws, gives the same foreground, background and total
C20_CircularIgnoresEccen ==
    (Emitted /\ gw.arg = "False" /\ gw.has_eccen) =>
        \A f \in Freqs :
            /\ \A p \in gw.mc[f].valid : p[2] = 2 /\ gw.mc[f].gne[p] = Fin(GOne)
            /\ \A e \in {Fin(0), Fin(EccMid)} :
                  Spectra(_calc_mc_at_fobs(harm_range(FALSE), TRUE, WithEccen(gw.src[f], e)))
                      = Spectra(gw.mc[f])

\* the elements of the f-th frequency done that are inside the track before
\* redshift zero, with the draw and the mean of each
ValidPairs(f) ==
    {p \in Bins \X harm_range(gw.eccen) : ValidRedz(a_to_z(gw.src[f][p[1]].time[p[2]]))}
DrawOf(f, p, r) == gw.src[f][p[1]].pois[p[2]][r]
MeanOf(f, p) == gw.src[f][p[1]].num_frac[p[2]]
\* h_s^2 * g(n,e) * (2/n)^2 of an element, times 9
StrainOf(f, p) ==
    FMul(FMul(Fin(gw.src[f][p[1]].hs2[p[2]]), gw.mc[f].gne[p]), Fin(36 \div (p[2] * p[2])))
DrawsAreMeans(f, r) == \A p \in ValidPairs(f) : DrawOf(f, p, r) = MeanOf(f, p)

\* C21: at every frequency the total of a realization is the sum over the valid
\* (binary, harmonic) elements of h_s^2 * g * (2/n)^2 times the draw of the
\* element, the analytic spectrum is the same sum with the mean in place of the
\* draw, and the two are equal in a realization whose draws all equal their means
C21_TotalAndAnalytic ==
    cls = "GW_Discrete" =>
        \A f \in 1..Len(gw.mc) :
            LET pairs == ValidPairs(f)
                sa == SumOver(pairs, [p \in pairs |-> FMul(StrainOf(f, p), Fin(MeanOf(f, p)))])
            IN /\ gw.loc.sa_eccen[f] = sa
               /\ \A r \in Reals :
                     /\ gw.loc.eccen_both[f][r] =
                           SumOver(pairs, [p \in pairs |->
                               FMul(StrainOf(f, p), Fin(DrawOf(f, p, r)))])
                     /\ DrawsAreMeans(f, r) => gw.loc.eccen_both[f][r] = sa

\* emit() has returned from an eccentric run with a frequency at which several
\* harmonics of both binaries are valid, the draws of one realization equal
\* their means and those of the other do not
C21_Witness ==
    /\ Emitted /\ gw.eccen
    /\ \E f \in Freqs :
          /\ \A b \in Bins : \E n \in HarmNums : n # 2 /\ <<b, n>> \in ValidPairs(f)
                                /\ DrawOf(f, <<b, n>>, 1) > 1
          /\ DrawsAreMeans(f, 1) /\ ~DrawsAreMeans(f, 2)
          /\ FGt0(gw.loc.sa_eccen[f])
          /\ gw.loc.eccen_both[f][1] = gw.loc.sa_eccen[f]
          /\ gw.loc.eccen_both[f][2] # gw.loc.sa_eccen[f]

\* C30: at every frequency and in every realization of a returned emit(),
\* foreground + background = total in strain squared and 0 <= foreground <=
\* total, so that the background is not negative and its square root, which
\* emit() stores, is defined; also where no source is drawn
C30_ForePlusBackIsTotal ==
    Emitted => \A f \in Freqs : \A r \in Reals :
        /\ FAdd(gw.loc.eccen_fore[f][r], gw.loc.eccen_back[f][r]) = gw.loc.eccen_both[f][r]
        /\ FAdd(gw.loc.circ_fore[f][r], gw.loc.circ_back[f][r]) = gw.loc.circ_both[f][r]
        /\ FLe(Fin(0), gw.loc.eccen_fore[f][r])
        /\ FLe(gw.loc.eccen_fore[f][r], gw.loc.eccen_both[f][r])
        /\ FLe(Fin(0), gw.loc.circ_fore[f][r])
        /\ FLe(gw.loc.circ_fore[f][r], gw.loc.circ_both[f][r])
        /\ IsFinite(gw.out.eccen_back[f][r]) /\ IsFinite(gw.out.circ_back[f][r])

\* a returned emit() with a frequency at which no source is drawn in any
\* realization, and a frequency at which one realization draws no source while
\* the other draws several, the foreground below the total
NoneDrawn(f, r) == \A p \in gw.mc[f].valid : DrawOf(f, p, r) = 0
C30_Witness ==
    /\ Emitted
    /\ \E f \in Freqs : gw.mc[f].valid # {} /\ \A r \in Reals : NoneDrawn(f, r)
    /\ \E f \in Freqs :
          /\ NoneDrawn(f, 2) /\ ~NoneDrawn(f, 1)
          /\ gw.loc.eccen_both[f][2] = Fin(0) /\ gw.out.eccen_back[f][2] = Fin(0)
          /\ FGt0(gw.loc.eccen_fore[f][1])
          /\ FGt0(gw.loc.eccen_back[f][1])

\* ---------------------------------------------------------------------------
\* Properties of sample_universe
\* ---------------------------------------------------------------------------
\* sample_universe() has returned
Sampled == cls = "Evolution" /\ call = Call("sample_universe", "none")

\* C22: the size of the catalog that sample_universe draws has the Poisson mean
\* (sum of the weights of the valid elements) / down_sample, the plain sum when
\* down_sample is None, and the weights it returns are the original weights,
\* not divided by down_sample
C22_PoissonMeanAndWeights ==
    Sampled =>
        LET total == SumInt(DOMAIN su.weights, su.weights)
        IN /\ su.mean * su.down_sample.val = total
           /\ ~su.down_sample.set => su.mean = total
           /\ su.nsamp \in PoissonDraws(su.mean)
           /\ su.ret = su.weights

\* a call with down_sample = 4 on elements of two binaries with different
\* weights returned: the mean is a quarter of the sum and the count drawn is
\* the mean
C22_Witness ==
    /\ Sampled
    /\ su.down_sample = [set |-> TRUE, val |-> 4]
    /\ \E p, q \in DOMAIN su.weights : su.weights[p] # su.weights[q]
    /\ su.mean > 0
    /\ su.nsamp * WOne = su.mean
    /\ su.ret = su.weights

\* ---------------------------------------------------------------------------
\* Properties of the coal cache and of the adaptive arena
\* ---------------------------------------------------------------------------
\* C23: whatever evolve(), modify() and reads came before, a read of coal gives,
\* for every binary, true exactly when the scale factor of the binary at the
\* final stored step of the current track is below 1.0
C23_CoalOfCurrentTrack ==
    (cls = "Evolution" /\ call = Call("coal", "none")) =>
        \A b \in Bins :
            _coal.val[b] = (scafa[b][LastStep] < ScafaOne)

\* C24: in a track the adaptive integrator returns no stored separation of a
\* binary lies below the ISCO radius of the masses stored with it
C24_NoSepaBelowIsco ==
    NewReturned =>
        \A b \in Bins : \A i \in _first_index[b].._last_index[b] :
            FLe(Fin(RadIscoF(mass[i])), sepa[i])

\* the step that a pass of the adaptive loop stored: the pass went through to
\* its end
StepStored == cls = "New_Evolution" /\ pc = "loop" /\ ev'.my_steps = ev.my_steps + 1
\* the CFL bounds of the left edge of the running step
LeftBounds ==
    _get_timestep_from_rates(sepa[ev.left], eccen[ev.left], mass[ev.left],
                             FSum(ev.dadt_l_list), FSum(ev.dedt_l_list), ev.mdot_l)

C26_IndexRangesDelimit ==
    /\ call # Call("evolve", "AssertionError")
    /\ NewReturned =>
          \A b \in Bins :
              /\ _first_index[b] = (IF b = 1 THEN 0 ELSE _last_index[b - 1] + 1)
              /\ _first_index[b] <= _last_index[b]
              /\ _last_index[b] < ALen(sepa)
              /\ sepa[_first_index[b]] = Fin(pop.bin[b].sepa)
              /\ mass[_first_index[b]] = << Fin(pop.bin[b].mass[1]), Fin(pop.bin[b].mass[2]) >>

\* C27: no write of the adaptive loop at the global step index falls outside a
\* per-step array: the loop never raises IndexError, and every per-step array
\* is as long as the arena while the loop runs
C27_WritesInsideArena ==
    /\ call.raised # "IndexError"
    /\ (cls = "New_Evolution" /\ pc \in {"bin", "loop"} /\ acc # "none") =>
          /\ ALen(sepa) = ev.arr_size /\ ALen(mdot) = ev.arr_size
          /\ ev.idx < ev.arr_size \/ pc = "bin"

\* the steps s >= 1 of the fixed-step track that have been stored
StoredSteps == { s \in 1..LastStep : (pc = "evolving" /\ s < step) \/ (pc = "idle" /\ _evolved) }

C29_StoredLeftRateIsFresh ==
    (cls = "Evolution" /\ pc = "evolving" /\ step < NSteps) =>
        \A b \in Bins :
            dadt[b][step - 1] = _hardening_rate(b, step - 1, eccen[b][step - 1]).dadt

====
